---------------------------- MODULE Spec2Model ----------------------------
(***************************************************************************)
(* A model of django-upgrade: the fixer registry and the dispatch table    *)
(* (data.py), the tree walk `visit` (data.py), the edit engine             *)
(* `apply_fixers` and the driver `main` / `fix_file` (main.py), and the    *)
(* psycopg2 fixer (fixers/psycopg2_to_psycopg3.py).                        *)
(*                                                                         *)
(* Conventions.  A dotted module name is the sequence of its components    *)
(* (<<"django", "contrib">> is django.contrib), and <<>> is None.  A       *)
(* version is the pair <<major, minor>>.  A Python dict that is iterated   *)
(* is a sequence in insertion order; a defaultdict that is only indexed    *)
(* is a function whose missing keys read as the default.                   *)
(***************************************************************************)
EXTENDS Integers, Sequences, FiniteSets, TLC

VARIABLES
    heap,       \* every Fixer object constructed so far (a reference is an index)
    FIXERS,     \* data.FIXERS: the catalogue, a dict name -> Fixer in insertion order
    settings,   \* the Settings object of the run
    ast_funcs,  \* the table returned by the last get_ast_funcs call
    buildfile,  \* the filename of the State that call was given
    tree,       \* visit: the tree being walked
    state,      \* visit: the State object (settings, filename, from_imports) of its last call
    table,      \* visit: its dispatch table (local ast_funcs)
    nodes,      \* visit: the work stack of (node, parents)
    ret,        \* visit: offset -> list of token functions
    visited,    \* history: the nodes popped so far, in order
    queued,     \* history: the (offset, token function) pairs appended to ret
    original,   \* history: the token list as the reverse pass found it
    tokens,     \* apply_fixers: the live token list
    callbacks,  \* apply_fixers: the offset -> token functions map being applied
    idx,        \* apply_fixers: the index reversed_enumerate yields next
    calls,      \* history: the token-function invocations so far
    argv,       \* main: the command line (its values, its options in order)
    disk,       \* the files: path -> contents
    stdout,     \* what was printed to standard output
    stderr,     \* what was printed to standard error
    mainret,    \* main: ret
    fileno,     \* main: index of the next filename of the loop
    stdin,      \* the bytes of the process's input stream not yet read
    log,        \* history: one record per fix_file call
    pc          \* which phase the modelled operation is in

vars == <<heap, FIXERS, settings, ast_funcs, buildfile, tree, state, table,
          nodes, ret, visited, queued, original, tokens, callbacks, idx, calls,
          argv, disk, stdin, stdout, stderr, mainret, fileno, log, pc>>

registryVars == <<heap, FIXERS>>
buildVars    == <<settings, ast_funcs, buildfile>>
walkVars     == <<tree, state, table, nodes, ret, visited, queued>>
engineVars   == <<original, tokens, callbacks, idx, calls>>
mainVars     == <<argv, disk, stdin, stdout, stderr, mainret, fileno, log>>

Last(s) == s[Len(s)]

Range(s) == {s[k] : k \in DOMAIN s}

(***************************************************************************)
(* Versions.                                                               *)
(***************************************************************************)

\* The --target-version choices, as written on the command line.
TargetChoices ==
    {"1.7", "1.8", "1.9", "1.10", "1.11", "2.0", "2.1", "2.2",
     "3.0", "3.1", "3.2", "4.0", "4.1", "4.2", "5.0", "5.1"}

\* tuple(int(x) for x in s.split(".", 1)) on the choices.
ParseTargetVersion(s) ==
    CASE s = "1.7"  -> <<1, 7>>
      [] s = "1.8"  -> <<1, 8>>
      [] s = "1.9"  -> <<1, 9>>
      [] s = "1.10" -> <<1, 10>>
      [] s = "1.11" -> <<1, 11>>
      [] s = "2.0"  -> <<2, 0>>
      [] s = "2.1"  -> <<2, 1>>
      [] s = "2.2"  -> <<2, 2>>
      [] s = "3.0"  -> <<3, 0>>
      [] s = "3.1"  -> <<3, 1>>
      [] s = "3.2"  -> <<3, 2>>
      [] s = "4.0"  -> <<4, 0>>
      [] s = "4.1"  -> <<4, 1>>
      [] s = "4.2"  -> <<4, 2>>
      [] s = "5.0"  -> <<5, 0>>
      [] s = "5.1"  -> <<5, 1>>

\* A mutant of VersionLE: the minor components alone decide.
VersionLEMinorOnly(a, b) == a[2] <= b[2]

\* Python's a <= b on two (major, minor) tuples: lexicographic.
VersionLE(a, b) == a[1] < b[1] \/ (a[1] = b[1] /\ a[2] <= b[2])

(***************************************************************************)
(* Node kinds and the rule registry.                                       *)
(***************************************************************************)

NodeKinds ==
    {"Module", "Import", "ImportFrom", "alias", "Assign", "Attribute",
     "Name", "Constant", "Call", "FunctionDef", "arguments", "Pass", "Load",
     "Store"}

NoFuncs == [k \in NodeKinds |-> <<>>]

\* Fixer.__init__: the object it builds.
NewFixerObject(module_name, min_version, condition) ==
    [name        |-> Last(module_name),
     min_version |-> min_version,
     ast_funcs   |-> NoFuncs,
     condition   |-> condition]

\* Whether a name is a key of a dict kept as a sequence of [name, ref].
HasKey(dict, name) == \E k \in DOMAIN dict : dict[k].name = name

\* A mutant of DictSet: an existing key keeps its value.
DictSetFirstWins(dict, name, ref) ==
    IF \E k \in DOMAIN dict : dict[k].name = name
    THEN dict
    ELSE Append(dict, [name |-> name, ref |-> ref])

\* dict[name] = ref: an existing key keeps its place, a new key goes last.
DictSet(dict, name, ref) ==
    IF HasKey(dict, name)
    THEN [k \in DOMAIN dict |->
            IF dict[k].name = name THEN [name |-> name, ref |-> ref] ELSE dict[k]]
    ELSE Append(dict, [name |-> name, ref |-> ref])

DictKeys(dict) == {dict[k].name : k \in DOMAIN dict}

\* Fixer.register(type_)(func) on the Fixer object at reference r.
RegisterFunc(h, r, type_, func) ==
    [h EXCEPT ![r].ast_funcs[type_] = Append(@, func)]

\* The three fixer modules, in the order _import_fixers imports them
\* (pkgutil.walk_packages yields the modules of a package sorted by name).
FixerModules ==
    <<[module      |-> <<"django_upgrade", "fixers", "admin_allow_tags">>,
       min_version |-> <<2, 0>>,
       condition   |-> "None",
       binds       |-> << <<"Assign", "visit_Assign">> >>],
      [module      |-> <<"django_upgrade", "fixers", "format_html">>,
       min_version |-> <<5, 0>>,
       condition   |-> "None",
       binds       |-> << <<"Call", "visit_Call">> >>],
      [module      |-> <<"django_upgrade", "fixers", "psycopg2_to_psycopg3">>,
       min_version |-> <<3, 0>>,
       condition   |-> "None",
       \* decorators apply bottom-up: ImportFrom is bound first
       binds       |-> << <<"ImportFrom", "visit_Import">>,
                          <<"Import", "visit_Import">> >>]>>

RECURSIVE BindAll(_, _, _)
BindAll(h, r, binds) ==
    IF binds = <<>> THEN h
    ELSE BindAll(RegisterFunc(h, r, binds[1][1], binds[1][2]), r, Tail(binds))

RECURSIVE ImportFixers(_, _, _)
\* _import_fixers: import each fixer module, whose top level constructs its
\* Fixer and binds its callbacks.  Returns <<heap, FIXERS>>.
ImportFixers(h, dict, mods) ==
    IF mods = <<>> THEN <<h, dict>>
    ELSE LET m  == mods[1]
             r  == Len(h) + 1
             h1 == Append(h, NewFixerObject(m.module, m.min_version, m.condition))
         IN  ImportFixers(BindAll(h1, r, m.binds),
                          DictSet(dict, Last(m.module), r),
                          Tail(mods))

LoadedHeap   == ImportFixers(<<>>, <<>>, FixerModules)[1]
LoadedFIXERS == ImportFixers(<<>>, <<>>, FixerModules)[2]

(***************************************************************************)
(* Settings, State and the dispatch table builder.                         *)
(***************************************************************************)

\* An optional set of names: None, or a set.
None_      == [given |-> FALSE, names |-> {}]
Some(names) == [given |-> TRUE, names |-> names]

\* A mutant of EnabledFixers: the deny-list is not consulted.
EnabledFixersIgnoringSkip(dict, only_fixers, skip_fixers) ==
    {name \in DictKeys(dict) : ~only_fixers.given \/ name \in only_fixers.names}

\* The set comprehension of Settings.__init__ over the catalogue `dict`.
EnabledFixers(dict, only_fixers, skip_fixers) ==
    {name \in DictKeys(dict) :
        /\ (~only_fixers.given \/ name \in only_fixers.names)
        /\ (~skip_fixers.given \/ name \notin skip_fixers.names)}

\* Settings.__init__.
NewSettings(dict, target_version, only_fixers, skip_fixers) ==
    [target_version |-> target_version,
     enabled_fixers |-> EnabledFixers(dict, only_fixers, skip_fixers)]

\* The filenames of the model and what the filename patterns find in them.
Filenames == {"-", "app/admin.py", "app/views.py"}

\* admin_re.search(filename) is not None
looks_like_admin_file(st) == st.filename \in {"app/admin.py"}

Conditions == {"None", "looks_like_admin_file"}

\* A mutant of ConditionHolds: a fixer without a condition is tested like
\* one for admin files.
ConditionHoldsTestingNone(condition, st) == looks_like_admin_file(st)

\* fixer.condition is None or fixer.condition(state)
ConditionHolds(condition, st) ==
    CASE condition = "None"                  -> TRUE
      [] condition = "looks_like_admin_file" -> looks_like_admin_file(st)

\* The module paths the fixers read from_imports at, and the other module
\* names of the model's programs.
ModuleNames ==
    {<<"django">>, <<"django", "contrib">>, <<"django", "contrib", "gis">>,
     <<"django", "utils", "html">>, <<"unittest">>, <<"djangox">>,
     <<"psycopg2">>, <<"psycopg">>, <<"os">>}

\* defaultdict(set)
NoImports == [m \in ModuleNames |-> {}]

\* State.__init__ as visit calls it.
NewState(settings_, filename) ==
    [settings |-> settings_, filename |-> filename, from_imports |-> NoImports]

\* A mutant of FixerActive: the enabled set is not consulted.
FixerActiveIgnoringEnabled(fixer, st, settings_) ==
    /\ VersionLE(fixer.min_version, st.settings.target_version)
    /\ ConditionHolds(fixer.condition, st)

\* The two tests of get_ast_funcs' loop body on one fixer.
FixerActive(fixer, st, settings_) ==
    /\ fixer.name \in settings_.enabled_fixers
    /\ VersionLE(fixer.min_version, st.settings.target_version)
    /\ ConditionHolds(fixer.condition, st)

RECURSIVE ExtendFromPrepending(_, _, _, _, _, _)
\* A mutant of ExtendFrom: a fixer's callbacks go in front of those present.
ExtendFromPrepending(h, dict, k, st, settings_, acc) ==
    IF k > Len(dict) THEN acc
    ELSE LET fixer == h[dict[k].ref]
         IN  ExtendFromPrepending(h, dict, k + 1, st, settings_,
                        IF FixerActive(fixer, st, settings_)
                        THEN [t \in NodeKinds |-> fixer.ast_funcs[t] \o acc[t]]
                        ELSE acc)

RECURSIVE ExtendFrom(_, _, _, _, _, _)
\* The loop of get_ast_funcs from catalogue entry k on, `acc` being ast_funcs.
ExtendFrom(h, dict, k, st, settings_, acc) ==
    IF k > Len(dict) THEN acc
    ELSE LET fixer == h[dict[k].ref]
         IN  ExtendFrom(h, dict, k + 1, st, settings_,
                        IF FixerActive(fixer, st, settings_)
                        THEN [t \in NodeKinds |-> acc[t] \o fixer.ast_funcs[t]]
                        ELSE acc)

\* get_ast_funcs(state, settings) over the catalogue (h, dict).
get_ast_funcs(h, dict, st, settings_) ==
    ExtendFrom(h, dict, 1, st, settings_, NoFuncs)

(***************************************************************************)
(* Source text, its syntax tree and its tokens.                            *)
(*                                                                         *)
(* A source text is the sequence of its lexemes (the strings the tokenizer *)
(* cuts it into); the text itself is their concatenation.  The model       *)
(* covers the statements of StmtVocabulary, one per line, nested by        *)
(* indentation of four spaces per level.  ast_parse and src_to_tokens are  *)
(* the library functions ast.parse and tokenize_rt.src_to_tokens on this   *)
(* fragment of Python.                                                     *)
(***************************************************************************)

RECURSIVE Flatten(_)
\* The concatenation of a sequence of sequences.
Flatten(ss) == IF ss = <<>> THEN <<>> ELSE ss[1] \o Flatten(Tail(ss))

RECURSIVE SumLen(_, _)
\* The length in characters of the first n lexemes of lexs.
SumLen(lexs, n) == IF n = 0 THEN 0 ELSE SumLen(lexs, n - 1) + Len(lexs[n])

RECURSIVE Spaces(_)
\* The indentation of depth d >= 1 as one lexeme: four spaces a level.
Spaces(d) == IF d = 1 THEN "    " ELSE "    " \o Spaces(d - 1)

IndentDepths == 1 .. 8

Alias(name, asname) == [name |-> name, asname |-> asname]

\* a.b.c as lexemes
DottedLex(name) == Flatten([k \in DOMAIN name |->
                              IF k = 1 THEN <<name[k]>> ELSE <<".", name[k]>>])

AliasLex(a) == DottedLex(a.name) \o
               (IF a.asname = "" THEN <<>> ELSE <<" ", "as", " ", a.asname>>)

AliasListLex(names) == Flatten([k \in DOMAIN names |->
                                  (IF k = 1 THEN <<>> ELSE <<",", " ">>) \o AliasLex(names[k])])

\* The lexemes of a statement, without indentation and newline.
Lexemes(stmt) ==
    CASE stmt.form = "import" ->
            <<"import", " ">> \o AliasListLex(stmt.names)
      [] stmt.form = "from" ->
            <<"from", " ">> \o [k \in 1 .. stmt.level |-> "."] \o DottedLex(stmt.module)
                \o <<" ", "import", " ">> \o AliasListLex(stmt.names)
      [] stmt.form = "assign" ->
            <<stmt.obj, ".", stmt.attr, " ", "=", " ", stmt.value>>
      [] stmt.form = "format_html" ->
            <<"html", " ", "=", " ", "format_html", "(", "\"Hello, {}!\"", ".",
              "format", "(", "name", ")", ")">>
      [] stmt.form = "format_html_args" ->
            <<"html", " ", "=", " ", "format_html", "(", "\"Hello, {}!\"", ",", " ",
              "name", ")">>
      [] stmt.form = "def" ->
            <<"def", " ", stmt.name, "(", ")", ":">>
      [] stmt.form = "pass" ->
            <<"pass">>

Import(names) == [form |-> "import", names |-> names]
ImportFrom(module, names, level) ==
    [form |-> "from", module |-> module, names |-> names, level |-> level]
AssignAttr(obj, attr, value) ==
    [form |-> "assign", obj |-> obj, attr |-> attr, value |-> value]
FormatHtml == [form |-> "format_html"]
FormatHtmlArgs == [form |-> "format_html_args"]
Def(name)  == [form |-> "def", name |-> name]
Pass       == [form |-> "pass"]
BadStmt    == [form |-> "bad"]

\* The statements of the modelled fragment.
StmtVocabulary ==
    {Import(<< Alias(m, "") >>) : m \in {<<"psycopg2">>, <<"psycopg">>, <<"os">>}}
    \cup {Import(<< Alias(<<"psycopg2">>, "pg"), Alias(<<"psycopg2">>, "") >>),
          Import(<< Alias(<<"psycopg">>, "pg"), Alias(<<"psycopg2">>, "") >>),
          Import(<< Alias(<<"psycopg">>, "pg"), Alias(<<"psycopg">>, "") >>),
          Import(<< Alias(<<"psycopg2">>, "pg"), Alias(<<"psycopg">>, "") >>),
          Import(<< Alias(<<"psycopg2", "extras">>, ""), Alias(<<"psycopg2">>, "") >>),
          Import(<< Alias(<<"psycopg", "extras">>, ""), Alias(<<"psycopg2">>, "") >>),
          Import(<< Alias(<<"psycopg", "extras">>, ""), Alias(<<"psycopg">>, "") >>)}
    \cup {ImportFrom(m, << Alias(<<"x">>, "") >>, 0) : m \in {<<"psycopg2">>, <<"psycopg">>}}
    \cup {ImportFrom(<<"django", "contrib">>, << Alias(<<"admin">>, a) >>, 0) :
            a \in {"", "a"}}
    \cup {ImportFrom(m, << Alias(<<"admin">>, "") >>, l) :
            m \in {<<"django">>, <<"djangox">>}, l \in {0, 1}}
    \cup {ImportFrom(<<"django", "contrib">>, << Alias(<<"*">>, "") >>, 0),
          ImportFrom(<<"unittest">>, << Alias(<<"mock">>, "m"), Alias(<<"TestCase">>, "") >>, 0),
          ImportFrom(<<>>, << Alias(<<"admin">>, "") >>, 1),
          ImportFrom(<<"django", "utils", "html">>, << Alias(<<"format_html">>, "") >>, 0),
          AssignAttr("f", "allow_tags", "True"),
          AssignAttr("f", "allow_tags", "False"),
          AssignAttr("f", "short_description", "True"),
          FormatHtml, FormatHtmlArgs, Def("f"), Pass}

\* The statement whose lexemes are lexs, if the fragment has one.
ParseStmt(lexs) ==
    IF \E stmt \in StmtVocabulary : Lexemes(stmt) = lexs
    THEN CHOOSE stmt \in StmtVocabulary : Lexemes(stmt) = lexs
    ELSE BadStmt

\* A line continuation just before the end of the file.  No reader accepts
\* it: ast.parse raises SyntaxError on a text that ends in it (unexpected
\* EOF), and the tokenize module raises TokenError on it.
Continuation == "\\\n"

\* A line continuation just before the end of the file whose line ends in a
\* carriage return and a line feed.  The parser reads a text that ends in
\* "\r\n" with one more newline after it, so the continuation joins an
\* empty line and ast.parse accepts the text; the tokenize module reads the
\* text as it is and raises TokenError on it (EOF in multi-line statement).
CrLfContinuation == "\\\r\n"

RECURSIVE SplitLines(_, _)
\* The lines of a text, each without its newline; `cur` is the line begun.
SplitLines(text, cur) ==
    IF text = <<>> THEN (IF cur = <<>> THEN <<>> ELSE <<cur>>)
    ELSE IF text[1] = "\n" THEN <<cur>> \o SplitLines(Tail(text), <<>>)
    ELSE SplitLines(Tail(text), Append(cur, text[1]))

IsIndent(lex) == \E d \in IndentDepths : lex = Spaces(d)
DepthOf(lex)  == CHOOSE d \in IndentDepths : lex = Spaces(d)

\* One line as [indent, stmt, lexs]: its depth, its statement, its lexemes
\* after the indentation.
ParseLine(line) ==
    LET indented == line # <<>> /\ IsIndent(line[1])
        body     == IF indented THEN Tail(line) ELSE line
    IN  [indent |-> IF indented THEN DepthOf(line[1]) ELSE 0,
         stmt   |-> ParseStmt(body),
         lexs   |-> body]

\* The lines of a text; the last one may lack its newline.
LinesOf(text) ==
    LET rows == SplitLines(text, <<>>)
    IN  [k \in DOMAIN rows |-> ParseLine(rows[k])]

\* The text as the parser reads one that ends in a continuation it accepts:
\* the text before the continuation, without the indentation of a line that
\* holds nothing but the continuation.
AsParsed(text) ==
    IF text # <<>> /\ Last(text) = CrLfContinuation
    THEN LET n == Len(text) - 1
         IN  IF n >= 1 /\ IsIndent(text[n]) /\ (n = 1 \/ text[n - 1] = "\n")
             THEN SubSeq(text, 1, n - 1)
             ELSE SubSeq(text, 1, n)
    ELSE text

RECURSIVE IndentsAt(_, _)
\* The indentation stack after line k, as the set of the depths it holds.
IndentsAt(lines, k) ==
    IF k = 0 THEN {0}
    ELSE {d \in IndentsAt(lines, k - 1) : d < lines[k].indent}
         \cup {lines[k].indent}

\* Whether ast.parse accepts the text, for a text written with the
\* statements of StmtVocabulary: every line is a statement (a line that
\* holds a continuation is none), the line after a block opener is indented
\* deeper than the opener by any amount, every other line returns to a
\* depth that is still open, and a block opener is not the last line.  The
\* last line need not end in a newline, and a continuation that ends in a
\* carriage return and a line feed may follow the last line.
Parses(text) ==
    \E lines \in {LinesOf(AsParsed(text))} :
        LET n == Len(lines)
        IN  /\ \A k \in 1 .. n : lines[k].stmt # BadStmt
            /\ n > 0 => lines[n].stmt.form # "def"
            /\ \A k \in 1 .. n :
                  IF k > 1 /\ lines[k - 1].stmt.form = "def"
                  THEN lines[k].indent > lines[k - 1].indent
                  ELSE lines[k].indent \in IndentsAt(lines, k - 1)

(***************************************************************************)
(* The syntax tree.  A node is named by <<line, k>>: the k-th node of the  *)
(* statement on that line; <<0, 1>> is the Module.  A node records its     *)
(* kind, its _fields in declared order and its position.  A field holds a  *)
(* node, a list of nodes, or a value that is no node.                      *)
(***************************************************************************)

NoId   == <<0, 0>>
RootId == <<0, 1>>

FNode(name, id)   == [name |-> name, tag |-> "node", node |-> id, items |-> <<>>,
                      val |-> <<>>, num |-> 0]
FList(name, ids)  == [name |-> name, tag |-> "list", node |-> NoId, items |-> ids,
                      val |-> <<>>, num |-> 0]
FVal(name, val)   == [name |-> name, tag |-> "value", node |-> NoId, items |-> <<>>,
                      val |-> val, num |-> 0]
FNum(name, num)   == [name |-> name, tag |-> "value", node |-> NoId, items |-> <<>>,
                      val |-> <<>>, num |-> num]
FNone(name)       == [name |-> name, tag |-> "none", node |-> NoId, items |-> <<>>,
                      val |-> <<>>, num |-> 0]

Node(kind, fields, lineno, col_offset) ==
    [kind |-> kind, fields |-> fields, lineno |-> lineno, col_offset |-> col_offset]

\* getattr(node, name)
Attr(node, name) ==
    node.fields[CHOOSE k \in DOMAIN node.fields : node.fields[k].name = name]

\* The number of lexemes of an import statement before its names.
NamesAt(stmt) == Len(Lexemes(stmt)) - Len(AliasListLex(stmt.names))

\* The number of lexemes of an import statement up to the end of its j-th
\* name, and up to the start of it.
AliasEnd(stmt, j)   == NamesAt(stmt) + Len(AliasListLex(SubSeq(stmt.names, 1, j)))
AliasStart(stmt, j) == AliasEnd(stmt, j) - Len(AliasLex(stmt.names[j]))

\* An alias node: it starts at its name and ends after its asname.
AliasNode(a, lineno, col_offset) ==
    Node("alias",
         <<FVal("name", a.name),
           IF a.asname = "" THEN FNone("asname") ELSE FVal("asname", <<a.asname>>)>>,
         lineno, col_offset)

\* The nodes of the statement on line L at column col, the k-th being node
\* <<L, k>>; body holds the statement nodes of a block opener's block.
StmtNodes(stmt, L, col, body) ==
    LET lexs  == Lexemes(stmt)
        at(p) == col + SumLen(lexs, p - 1)
    IN
    CASE stmt.form = "import" ->
            << Node("Import",
                    <<FList("names", [j \in DOMAIN stmt.names |-> <<L, 1 + j>>])>>,
                    L, col) >>
            \o [j \in DOMAIN stmt.names |->
                    AliasNode(stmt.names[j], L, at(AliasStart(stmt, j) + 1))]
      [] stmt.form = "from" ->
            << Node("ImportFrom",
                    <<IF stmt.module = <<>> THEN FNone("module")
                                            ELSE FVal("module", stmt.module),
                      FList("names", [j \in DOMAIN stmt.names |-> <<L, 1 + j>>]),
                      FNum("level", stmt.level)>>,
                    L, col) >>
            \o [j \in DOMAIN stmt.names |->
                    AliasNode(stmt.names[j], L, at(AliasStart(stmt, j) + 1))]
      [] stmt.form = "assign" ->
            << Node("Assign",
                    <<FList("targets", << <<L, 2>> >>), FNode("value", <<L, 6>>),
                      FNone("type_comment")>>, L, col),
               Node("Attribute",
                    <<FNode("value", <<L, 3>>), FVal("attr", <<stmt.attr>>),
                      FNode("ctx", <<L, 5>>)>>, L, col),
               Node("Name", <<FVal("id", <<stmt.obj>>), FNode("ctx", <<L, 4>>)>>, L, col),
               Node("Load", <<>>, 0, 0),
               Node("Store", <<>>, 0, 0),
               Node("Constant", <<FVal("value", <<stmt.value>>), FNone("kind")>>,
                    L, at(7)) >>
      [] stmt.form = "format_html" ->
            << Node("Assign",
                    <<FList("targets", << <<L, 2>> >>), FNode("value", <<L, 4>>),
                      FNone("type_comment")>>, L, col),
               Node("Name", <<FVal("id", <<"html">>), FNode("ctx", <<L, 3>>)>>, L, col),
               Node("Store", <<>>, 0, 0),
               Node("Call",
                    <<FNode("func", <<L, 5>>), FList("args", << <<L, 7>> >>),
                      FList("keywords", <<>>)>>, L, at(5)),
               Node("Name", <<FVal("id", <<"format_html">>), FNode("ctx", <<L, 6>>)>>,
                    L, at(5)),
               Node("Load", <<>>, 0, 0),
               Node("Call",
                    <<FNode("func", <<L, 8>>), FList("args", << <<L, 11>> >>),
                      FList("keywords", <<>>)>>, L, at(7)),
               Node("Attribute",
                    <<FNode("value", <<L, 9>>), FVal("attr", <<"format">>),
                      FNode("ctx", <<L, 10>>)>>, L, at(7)),
               Node("Constant", <<FVal("value", <<"\"Hello, {}!\"">>), FNone("kind")>>,
                    L, at(7)),
               Node("Load", <<>>, 0, 0),
               Node("Name", <<FVal("id", <<"name">>), FNode("ctx", <<L, 12>>)>>,
                    L, at(11)),
               Node("Load", <<>>, 0, 0) >>
      [] stmt.form = "format_html_args" ->
            << Node("Assign",
                    <<FList("targets", << <<L, 2>> >>), FNode("value", <<L, 4>>),
                      FNone("type_comment")>>, L, col),
               Node("Name", <<FVal("id", <<"html">>), FNode("ctx", <<L, 3>>)>>, L, col),
               Node("Store", <<>>, 0, 0),
               Node("Call",
                    <<FNode("func", <<L, 5>>), FList("args", << <<L, 7>>, <<L, 8>> >>),
                      FList("keywords", <<>>)>>, L, at(5)),
               Node("Name", <<FVal("id", <<"format_html">>), FNode("ctx", <<L, 6>>)>>,
                    L, at(5)),
               Node("Load", <<>>, 0, 0),
               Node("Constant", <<FVal("value", <<"\"Hello, {}!\"">>), FNone("kind")>>,
                    L, at(7)),
               Node("Name", <<FVal("id", <<"name">>), FNode("ctx", <<L, 9>>)>>,
                    L, at(10)),
               Node("Load", <<>>, 0, 0) >>
      [] stmt.form = "def" ->
            << Node("FunctionDef",
                    <<FVal("name", <<stmt.name>>), FNode("args", <<L, 2>>),
                      FList("body", body), FList("decorator_list", <<>>),
                      FNone("returns"), FNone("type_comment")>>, L, col),
               Node("arguments",
                    <<FList("posonlyargs", <<>>), FList("args", <<>>), FNone("vararg"),
                      FList("kwonlyargs", <<>>), FList("kw_defaults", <<>>),
                      FNone("kwarg"), FList("defaults", <<>>)>>, 0, 0) >>
      [] stmt.form = "pass" ->
            << Node("Pass", <<>>, L, col) >>

RECURSIVE BlockFrom(_, _, _)
\* The statement nodes of the block of depth d that starts at line j.
BlockFrom(lines, j, d) ==
    IF j > Len(lines) \/ lines[j].indent < d THEN <<>>
    ELSE (IF lines[j].indent = d THEN << <<j, 1>> >> ELSE <<>>)
         \o BlockFrom(lines, j + 1, d)

\* The column at which a line of depth d starts.
IndentCol(d) == IF d = 0 THEN 0 ELSE Len(Spaces(d))

\* The number of lexemes of its statement after which the statement's k-th
\* node ends; 0 for a node without a position or one that ends with its
\* block.
EndLexeme(stmt, k) ==
    CASE stmt.form \in {"import", "from"} ->
            IF k = 1 THEN Len(Lexemes(stmt)) ELSE AliasEnd(stmt, k - 1)
      [] stmt.form = "pass" -> 1
      [] stmt.form = "assign" ->
            CASE k \in {1, 6} -> 7 [] k = 2 -> 3 [] k = 3 -> 1 [] OTHER -> 0
      [] stmt.form = "format_html" ->
            CASE k \in {1, 4} -> 13 [] k = 2 -> 1 [] k = 5 -> 5 [] k = 7 -> 12
              [] k = 8 -> 9 [] k = 9 -> 7 [] k = 11 -> 11 [] OTHER -> 0
      [] stmt.form = "format_html_args" ->
            CASE k \in {1, 4} -> 11 [] k = 2 -> 1 [] k = 5 -> 5 [] k = 7 -> 7
              [] k = 8 -> 10 [] OTHER -> 0
      [] stmt.form = "def" -> 0

RECURSIVE BlockEnd(_, _, _)
\* The last line of the block of the opener of depth d whose body starts at
\* line j.
BlockEnd(lines, j, d) ==
    IF j + 1 > Len(lines) \/ lines[j + 1].indent <= d THEN j
    ELSE BlockEnd(lines, j + 1, d)

\* The nodes of line L, with the end_lineno and end_col_offset of each.
LineNodes(lines, L) ==
    LET stmt  == lines[L].stmt
        last  == IF stmt.form = "def" THEN BlockEnd(lines, L + 1, lines[L].indent)
                 ELSE L
        endof(Lx, n) == IndentCol(lines[Lx].indent) + SumLen(lines[Lx].lexs, n)
    IN  CHOOSE positioned \in
          {[k \in DOMAIN raw |->
              [kind |-> raw[k].kind, fields |-> raw[k].fields,
               lineno |-> raw[k].lineno, col_offset |-> raw[k].col_offset,
               end_lineno |-> IF raw[k].lineno = 0 THEN 0 ELSE last,
               end_col_offset |->
                  IF raw[k].lineno = 0 THEN 0
                  ELSE IF stmt.form = "def" THEN endof(last, Len(lines[last].lexs))
                  ELSE endof(L, EndLexeme(stmt, k))]] :
           raw \in {StmtNodes(stmt, L, IndentCol(lines[L].indent),
                              IF L < Len(lines)
                              THEN BlockFrom(lines, L + 1, lines[L + 1].indent)
                              ELSE <<>>)}}
          : TRUE

RECURSIVE TreeOf(_)
\* The tree that holds the nodes of a list under their names.
TreeOf(named) == IF named = <<>> THEN <<>> ELSE named[1] @@ TreeOf(Tail(named))

\* ast_parse(contents_text) on a text that parses: the tree, a function from
\* node names to nodes.
ast_parse(text) ==
    CHOOSE tr \in
      {TreeOf(Flatten([L \in DOMAIN lines |->
                 CHOOSE named \in {[k \in DOMAIN ln |-> <<L, k>> :> ln[k]] :
                                     ln \in {LineNodes(lines, L)}} : TRUE]))
       @@ (RootId :> Node("Module",
                          <<FList("body", BlockFrom(lines, 1, 0)),
                            FList("type_ignores", <<>>)>>,
                          0, 0)) :
       lines \in {LinesOf(AsParsed(text))}}
      : TRUE

\* ast_start_offset(node): where the node starts, as (line, column).
ast_start_offset(node) == <<node.lineno, node.col_offset>>

(***************************************************************************)
(* Tokens.  A token has a name, its source text and the (line, column)     *)
(* where it starts; uid tells the tokens of a list apart (it is the place  *)
(* the tokenizer gave the token, 0 for a token an edit made).              *)
(***************************************************************************)

Token(name, src, line, utf8_byte_offset, uid) ==
    [name |-> name, src |-> src, line |-> line,
     utf8_byte_offset |-> utf8_byte_offset, uid |-> uid]

\* Token.offset
OffsetOf(token) == <<token.line, token.utf8_byte_offset>>

UNIMPORTANT_WS == "UNIMPORTANT_WS"
DEDENT == "DEDENT"

\* The name the tokenizer gives a lexeme.
TokenName(lex) ==
    CASE lex = " "  -> UNIMPORTANT_WS
      [] lex = "\n" -> "NEWLINE"
      [] lex \in {".", ",", "=", "(", ")", ":", "*"} -> "OP"
      [] lex = "\"Hello, {}!\"" -> "STRING"
      [] OTHER -> "NAME"

\* The tokens of line k, read with the depths of `open` on the indentation
\* stack; nl is the newline the line ends in, "" at the end of a text that
\* lacks it.
LineTokens(line, k, open, nl) ==
    LET d    == line.indent
        col  == IndentCol(d)
        ws   == IF d > 0 THEN <<Token(UNIMPORTANT_WS, Spaces(d), k, 0, 0)>> ELSE <<>>
        lead == IF d \notin open THEN <<Token("INDENT", Spaces(d), k, 0, 0)>>
                ELSE ws \o [j \in 1 .. Cardinality({o \in open : o > d}) |->
                               Token(DEDENT, "", k, col, 0)]
        body == [p \in DOMAIN line.lexs |->
                    Token(TokenName(line.lexs[p]), line.lexs[p], k,
                          col + SumLen(line.lexs, p - 1), 0)]
    IN  lead \o body
        \o <<Token("NEWLINE", nl, k, col + SumLen(line.lexs, Len(line.lexs)), 0)>>

\* Whether src_to_tokens raises IndentationError on the text: the tokenize
\* module finds a line that is not blank, a line that holds nothing but a
\* continuation among them, indented less than the line before it to a
\* depth that is not open.  IndentationError is a SyntaxError and no
\* tokenize.TokenError.
UnindentFails(text) ==
    \E lines \in {LinesOf(text)} :
        \E k \in DOMAIN lines :
            /\ lines[k].lexs # <<>>
            /\ lines[k].indent \notin IndentsAt(lines, k - 1)
            /\ \E d \in IndentsAt(lines, k - 1) : d > lines[k].indent

\* Whether src_to_tokens raises tokenize.TokenError on the text: the text
\* ends in a continuation and the tokenizer reaches its end.
TokenizeFails(text) ==
    /\ text # <<>> /\ Last(text) \in {Continuation, CrLfContinuation}
    /\ ~UnindentFails(text)

\* tokenize_rt.src_to_tokens(contents_text) on a text it accepts.
src_to_tokens(text) ==
    CHOOSE numbered \in
      {[k \in DOMAIN toks |-> [toks[k] EXCEPT !.uid = k]] :
       toks \in
         {Flatten([k \in 1 .. Len(lines) |->
                     LineTokens(lines[k], k, IndentsAt(lines, k - 1),
                                IF k = Len(lines) /\ Last(text) # "\n"
                                THEN "" ELSE "\n")])
          \o [j \in 1 .. Cardinality(IndentsAt(lines, Len(lines))) - 1 |->
                 Token(DEDENT, "", Len(lines) + 1, 0, 0)]
          \o <<Token("ENDMARKER", "", Len(lines) + 1, 0, 0)>> :
          lines \in {LinesOf(text)}}}
      : TRUE

\* tokenize_rt.tokens_to_src(tokens): "".join(tok.src for tok in tokens), as
\* the lexemes that make up the joined text.
tokens_to_src(toks) ==
    Flatten([k \in DOMAIN toks |->
                CASE toks[k].src = ""   -> <<>>
                  [] toks[k].src = ", " -> <<",", " ">>
                  [] OTHER              -> <<toks[k].src>>])

(***************************************************************************)
(* The fixers' callbacks.  A callback returns the (offset, token function) *)
(* pairs it yields, in order.  A token function is a record: the function  *)
(* and the keyword arguments functools.partial bound to it.                *)
(***************************************************************************)

RECURSIVE JoinDots(_)
\* The dotted string of a module name.
JoinDots(m) == IF Len(m) = 1 THEN m[1] ELSE m[1] \o "." \o JoinDots(Tail(m))

\* psycopg2_to_psycopg3.MODULE_MAP
MODULE_MAP == (<<"psycopg2">> :> <<"psycopg">>)

\* partial(replace_module_name, name=name, new=new)
ReplaceModuleName(name, new) ==
    [fn |-> "replace_module_name", name |-> JoinDots(name), new |-> JoinDots(new),
     node |-> NoId, end |-> NoId]

\* partial(erase_node, node=node): the node by its name and its end
\* position.
EraseNode(id, node) ==
    [fn |-> "erase_node", name |-> "", new |-> "", node |-> id,
     end |-> <<node.end_lineno, node.end_col_offset>>]

\* partial(rewrite_str_format, node=node)
RewriteStrFormat(id, node) ==
    [fn |-> "rewrite_str_format", name |-> "", new |-> "", node |-> id,
     end |-> <<node.end_lineno, node.end_col_offset>>]

\* The edit a callback of an extra fixer module yields: it is known by the
\* callback's name.
MarkerEdit(func) ==
    [fn |-> "marker", name |-> func, new |-> "", node |-> NoId, end |-> NoId]

\* psycopg2_to_psycopg3.visit_Import
visit_Import(tr, st, id, parents) ==
    LET node == tr[id]
    IN  IF node.kind = "Import"
        THEN LET names == Attr(node, "names").items
             IN  Flatten([j \in DOMAIN names |->
                    LET alias == Attr(tr[names[j]], "name").val
                    IN  IF alias \in DOMAIN MODULE_MAP
                        THEN << <<ast_start_offset(node),
                                  ReplaceModuleName(alias, MODULE_MAP[alias])>> >>
                        ELSE <<>>])
        ELSE IF node.kind = "ImportFrom"
        THEN LET module == Attr(node, "module")
             IN  IF module.tag = "value" /\ module.val \in DOMAIN MODULE_MAP
                 THEN << <<ast_start_offset(node),
                           ReplaceModuleName(module.val, MODULE_MAP[module.val])>> >>
                 ELSE <<>>
        ELSE <<>>

\* admin_allow_tags.visit_Assign
visit_Assign(tr, st, id, parents) ==
    LET node    == tr[id]
        targets == Attr(node, "targets").items
        value   == tr[Attr(node, "value").node]
    IN  IF /\ \/ <<"admin">> \in st.from_imports[<<"django", "contrib">>]
              \/ <<"admin">> \in st.from_imports[<<"django", "contrib", "gis">>]
           /\ Len(targets) = 1
           /\ tr[targets[1]].kind = "Attribute"
           /\ Attr(tr[targets[1]], "attr").val = <<"allow_tags">>
           /\ value.kind = "Constant"
           /\ Attr(value, "value").val = <<"True">>
        THEN << <<ast_start_offset(node), EraseNode(id, node)>> >>
        ELSE <<>>

\* isinstance(value, str) of a Constant's value
IsStr(val) == val = <<"\"Hello, {}!\"">>

\* format_html.visit_Call
visit_Call(tr, st, id, parents) ==
    LET node == tr[id]
        func == tr[Attr(node, "func").node]
        args == Attr(node, "args").items
    IN  IF /\ <<"format_html">> \in st.from_imports[<<"django", "utils", "html">>]
           /\ func.kind = "Name"
           /\ Attr(func, "id").val = <<"format_html">>
           /\ Len(args) = 1
           /\ Len(Attr(node, "keywords").items) = 0
           /\ tr[args[1]].kind = "Call"
           /\ tr[Attr(tr[args[1]], "func").node].kind = "Attribute"
           /\ LET attribute == tr[Attr(tr[args[1]], "func").node]
                  receiver  == tr[Attr(attribute, "value").node]
              IN  /\ receiver.kind = "Constant"
                  /\ IsStr(Attr(receiver, "value").val)
                  /\ Attr(attribute, "attr").val = <<"format">>
        THEN << <<ast_start_offset(node), RewriteStrFormat(args[1], tr[args[1]])>> >>
        ELSE <<>>

\* Whether the call ast_func(state, node, parents) raises: no callback of
\* the package does, the callback raise_error of a plugin module always does.
AstFuncRaises(func) == func = "raise_error"

\* ast_func(state, node, parents), as the list of the pairs it yields.
ApplyAstFunc(func, tr, st, id, parents) ==
    CASE func = "visit_Import" -> visit_Import(tr, st, id, parents)
      [] func = "visit_Assign" -> visit_Assign(tr, st, id, parents)
      [] func = "visit_Call"   -> visit_Call(tr, st, id, parents)
      [] func = "probe_admin"  ->
            \* a plugin's callback that reads an import fact as visit_Assign does
            IF <<"admin">> \in st.from_imports[<<"django", "contrib">>]
            THEN << <<ast_start_offset(tr[id]), MarkerEdit(func)>> >>
            ELSE <<>>
      [] OTHER -> << <<ast_start_offset(tr[id]), MarkerEdit(func)>> >>

(***************************************************************************)
(* The tree walk: data.visit.                                              *)
(***************************************************************************)

\* defaultdict(list) with no key
EmptyDict == [o \in {} |-> <<>>]

\* A mutant of DictAppend: the function goes to the front of the list.
DictAppendFront(d, offset, token_func) ==
    IF offset \in DOMAIN d
    THEN [d EXCEPT ![offset] = <<token_func>> \o @]
    ELSE (offset :> <<token_func>>) @@ d

\* ret[offset].append(token_func)
DictAppend(d, offset, token_func) ==
    IF offset \in DOMAIN d
    THEN [d EXCEPT ![offset] = Append(@, token_func)]
    ELSE (offset :> <<token_func>>) @@ d

RECURSIVE AppendPairs(_, _)
\* The appends of one node's pairs, in the order they are yielded.
AppendPairs(d, pairs) ==
    IF pairs = <<>> THEN d
    ELSE AppendPairs(DictAppend(d, pairs[1][1], pairs[1][2]), Tail(pairs))

\* The pairs the callbacks of the node's kind yield, callback by callback.
NodePairs(tr, tbl, st, id, parents) ==
    Flatten([j \in DOMAIN tbl[tr[id].kind] |->
                ApplyAstFunc(tbl[tr[id].kind][j], tr, st, id, parents)])

\* The test of visit that an import-from is one to track.
TracksImport(node) ==
    /\ node.kind = "ImportFrom"
    /\ Attr(node, "level").num = 0
    /\ Attr(node, "module").tag = "value"
    /\ LET module == Attr(node, "module").val
       IN  \/ (Len(module) >= 2 /\ module[1] = "django")
           \/ module \in {<<"django">>, <<"unittest">>}

\* A mutant of ImportedNames: a renamed import is not left out.
ImportedNamesWithRenamed(tr, node) ==
    LET names == Attr(node, "names").items
    IN  {Attr(tr[names[j]], "name").val : j \in
            {k \in DOMAIN names : Attr(tr[names[k]], "name").val # <<"*">>}}

\* The names the update of from_imports adds for the node.
ImportedNames(tr, node) ==
    LET names == Attr(node, "names").items
    IN  {Attr(tr[names[j]], "name").val : j \in
            {k \in DOMAIN names :
                /\ Attr(tr[names[k]], "asname").tag = "none"
                /\ Attr(tr[names[k]], "name").val # <<"*">>}}

Reverse(seq) == [k \in DOMAIN seq |-> seq[Len(seq) + 1 - k]]

\* A mutant of ChildEntries: the children are pushed in declared order.
ChildEntriesForward(node, subparents) ==
    Flatten([k \in DOMAIN node.fields |->
        LET f == node.fields[k]
        IN  CASE f.tag = "node" -> <<[node |-> f.node, parents |-> subparents]>>
              [] f.tag = "list" ->
                    [j \in DOMAIN f.items |-> [node |-> f.items[j], parents |-> subparents]]
              [] OTHER -> <<>>])

\* What the loop over reversed(node._fields) appends to the stack.
ChildEntries(node, subparents) ==
    Flatten([k \in DOMAIN node.fields |->
        LET f == Reverse(node.fields)[k]
        IN  CASE f.tag = "node" -> <<[node |-> f.node, parents |-> subparents]>>
              [] f.tag = "list" ->
                    [j \in DOMAIN f.items |->
                        [node |-> Reverse(f.items)[j], parents |-> subparents]]
              [] OTHER -> <<>>])

\* The import tracking of one loop iteration.
RecordImports(tr, node, from_imports) ==
    IF TracksImport(node)
    THEN [from_imports EXCEPT ![Attr(node, "module").val] =
                                    @ \cup ImportedNames(tr, node)]
    ELSE from_imports

\* Whether a callback of the table raises on the node.
NodeRaises(tr, tbl, id) ==
    \E j \in DOMAIN tbl[tr[id].kind] : AstFuncRaises(tbl[tr[id].kind][j])

\* What the callbacks of the node have yielded when one of them raises: the
\* pairs of the callbacks that come before the first one that raises.
PairsBeforeRaise(tr, tbl, st, id, parents) ==
    LET funcs == tbl[tr[id].kind]
        first == CHOOSE j \in DOMAIN funcs :
                    /\ AstFuncRaises(funcs[j])
                    /\ \A i \in 1 .. j - 1 : ~AstFuncRaises(funcs[i])
    IN  Flatten([j \in 1 .. first - 1 |->
                    ApplyAstFunc(funcs[j], tr, st, id, parents)])

\* A mutant of VisitNode: each callback is guarded, one that raises is
\* passed over and the walk goes on.
VisitNodeGuarded(tr, tbl, w) ==
    LET top     == Last(w.nodes)
        node    == tr[top.node]
        rest    == SubSeq(w.nodes, 1, Len(w.nodes) - 1)
        guarded == [t \in NodeKinds |-> SelectSeq(tbl[t], LAMBDA f : ~AstFuncRaises(f))]
    IN  [state   |-> [w.state EXCEPT !.from_imports = RecordImports(tr, node, @)],
         nodes   |-> rest \o ChildEntries(node, Append(top.parents, top.node)),
         ret     |-> AppendPairs(w.ret, NodePairs(tr, guarded, w.state, top.node, top.parents)),
         visited |-> Append(w.visited, top.node),
         queued  |-> w.queued \o NodePairs(tr, guarded, w.state, top.node, top.parents),
         raised  |-> FALSE]

\* A mutant of VisitNode: the names of an import-from are recorded before
\* the callbacks of its node run.
VisitNodeRecordingFirst(tr, tbl, w) ==
    LET top     == Last(w.nodes)
        node    == tr[top.node]
        rest    == SubSeq(w.nodes, 1, Len(w.nodes) - 1)
        after   == [w.state EXCEPT !.from_imports = RecordImports(tr, node, @)]
    IN  [state   |-> after,
         nodes   |-> rest \o ChildEntries(node, Append(top.parents, top.node)),
         ret     |-> AppendPairs(w.ret, NodePairs(tr, tbl, after, top.node, top.parents)),
         visited |-> Append(w.visited, top.node),
         queued  |-> w.queued \o NodePairs(tr, tbl, after, top.node, top.parents),
         raised  |-> FALSE]

\* One iteration of visit's while loop on the walk w = [state, nodes, ret,
\* visited, queued, raised]: pop, run the callbacks, track imports, push the
\* children.  A callback that raises ends the walk there: nothing in visit
\* catches, the pairs of the callbacks that ran before it on the node are
\* already in ret, and neither the imports nor the children follow.
VisitNode(tr, tbl, w) ==
    LET top     == Last(w.nodes)
        node    == tr[top.node]
        rest    == SubSeq(w.nodes, 1, Len(w.nodes) - 1)
    IN  IF NodeRaises(tr, tbl, top.node)
        THEN [w EXCEPT !.nodes = rest,
                       !.ret = AppendPairs(@, PairsBeforeRaise(tr, tbl, w.state,
                                                               top.node, top.parents)),
                       !.queued = @ \o PairsBeforeRaise(tr, tbl, w.state,
                                                        top.node, top.parents),
                       !.raised = TRUE]
        ELSE
        [state   |-> [w.state EXCEPT !.from_imports = RecordImports(tr, node, @)],
         nodes   |-> rest \o ChildEntries(node, Append(top.parents, top.node)),
         ret     |-> AppendPairs(w.ret, NodePairs(tr, tbl, w.state, top.node, top.parents)),
         visited |-> Append(w.visited, top.node),
         queued  |-> w.queued \o NodePairs(tr, tbl, w.state, top.node, top.parents),
         raised  |-> FALSE]

\* A mutant of StartWalk: the imported names of the last walk are kept.
StartWalkKeepingImports(h, dict, settings_, filename) ==
    [state   |-> [NewState(settings_, filename) EXCEPT !.from_imports = state.from_imports],
     nodes   |-> <<[node |-> RootId, parents |-> <<>>]>>,
     ret     |-> EmptyDict,
     visited |-> <<>>,
     queued  |-> <<>>,
     raised  |-> FALSE]

\* The walk as visit starts it.
StartWalk(h, dict, settings_, filename) ==
    [state   |-> NewState(settings_, filename),
     nodes   |-> <<[node |-> RootId, parents |-> <<>>]>>,
     ret     |-> EmptyDict,
     visited |-> <<>>,
     queued  |-> <<>>,
     raised  |-> FALSE]

RECURSIVE RunWalk(_, _, _)
RunWalk(tr, tbl, w) ==
    IF w.nodes = <<>> \/ w.raised THEN w ELSE RunWalk(tr, tbl, VisitNode(tr, tbl, w))

\* visit(tree, settings, filename) over the catalogue (h, dict): the finished
\* walk, whose ret is what visit returns.
visit(h, dict, tr, settings_, filename) ==
    RunWalk(tr,
            get_ast_funcs(h, dict, NewState(settings_, filename), settings_),
            StartWalk(h, dict, settings_, filename))

(***************************************************************************)
(* The registry and the dispatch table as a state machine: fixer modules   *)
(* are imported, a Settings object is constructed, a table is built.       *)
(***************************************************************************)

\* Bounds of the registry specification.
MaxExtraModules == 1
MaxListed == 1

\* Fixer modules a caller may import besides the three of the package; the
\* first name collides with a fixer of the package.
ExtraModules ==
    {[module      |-> <<"plugins", n>>,
      min_version |-> v,
      condition   |-> c,
      binds       |-> IF n = "extra"
                      THEN << <<"Assign", "extra_first">>,
                              <<"Import", "extra_import">>,
                              <<"Assign", "extra_second">> >>
                      ELSE << <<"Import", "plugin_import">> >>] :
        n \in {"psycopg2_to_psycopg3", "extra"},
        v \in {<<1, 10>>, <<4, 1>>},
        c \in Conditions}

FixerNames == {"admin_allow_tags", "format_html", "psycopg2_to_psycopg3", "extra"}

\* The values of an --only / --skip list: None, or a small set of names.
NameLists ==
    {None_} \cup {Some(S) : S \in {T \in SUBSET FixerNames : Cardinality(T) <= MaxListed}}

NoSettings == [target_version |-> <<0, 0>>, enabled_fixers |-> {}]
NoTree     == <<>>
NoState    == NewState(NoSettings, "")
NoArgv     == [filenames |-> <<>>, target_version |-> "2.2",
               exit_zero_even_if_changed |-> FALSE,
               only |-> None_, skip |-> None_, order |-> <<>>]

IdleBuild  == settings = NoSettings /\ ast_funcs = NoFuncs /\ buildfile = ""
IdleWalk   == /\ tree = NoTree /\ state = NoState /\ table = NoFuncs
              /\ nodes = <<>> /\ ret = <<>> /\ visited = <<>> /\ queued = <<>>
IdleEngine == /\ original = <<>> /\ tokens = <<>> /\ callbacks = <<>> /\ idx = 0
              /\ calls = <<>>
IdleMain   == /\ argv = NoArgv /\ disk = <<>> /\ stdin = <<>>
              /\ stdout = <<>> /\ stderr = <<>>
              /\ mainret = 0 /\ fileno = 0 /\ log = <<>>

\* The state once data.py is imported: _import_fixers has run.
InitRegistry ==
    /\ heap = LoadedHeap
    /\ FIXERS = LoadedFIXERS
    /\ pc = "imported"
    /\ IdleBuild /\ IdleWalk /\ IdleEngine /\ IdleMain

\* Importing one more fixer module: Fixer(...) then its register decorators.
ImportFixerModule(m) ==
    /\ pc = "imported"
    /\ Len(heap) < Len(LoadedHeap) + MaxExtraModules
    /\ heap' = ImportFixers(heap, FIXERS, <<m>>)[1]
    /\ FIXERS' = ImportFixers(heap, FIXERS, <<m>>)[2]
    /\ UNCHANGED <<buildVars, walkVars, engineVars, mainVars, pc>>

\* settings = Settings(target_version, only_fixers, skip_fixers)
ConstructSettings(target_version, only_fixers, skip_fixers) ==
    /\ pc = "imported"
    /\ settings' = NewSettings(FIXERS, target_version, only_fixers, skip_fixers)
    /\ argv' = [argv EXCEPT !.only = only_fixers, !.skip = skip_fixers]
    /\ pc' = "configured"
    /\ UNCHANGED <<registryVars, ast_funcs, buildfile, walkVars, engineVars,
                   disk, stdin, stdout, stderr, mainret, fileno, log>>

\* ast_funcs = get_ast_funcs(State(settings, filename, ...), settings)
BuildTable(filename) ==
    /\ pc = "configured"
    /\ ast_funcs' = get_ast_funcs(heap, FIXERS, NewState(settings, filename), settings)
    /\ buildfile' = filename
    /\ pc' = "built"
    /\ UNCHANGED <<registryVars, settings, walkVars, engineVars, mainVars>>

\* The target versions tables are built for: the versions next to each
\* min_version of the fixers, on both sides.
RegistryTargets == {"1.9", "1.10", "2.2", "3.0", "3.2", "4.1", "5.0", "5.1"}

NextRegistry ==
    \/ \E m \in ExtraModules : ImportFixerModule(m)
    \/ \E t \in RegistryTargets, o \in NameLists, s \in NameLists :
          ConstructSettings(ParseTargetVersion(t), o, s)
    \/ \E f \in Filenames \ {"-"} : BuildTable(f)

SpecRegistry == InitRegistry /\ [][NextRegistry]_vars

\* The Fixer objects the catalogue holds, in iteration order.
Registered == [k \in DOMAIN FIXERS |-> heap[FIXERS[k].ref]]

\* A version as one number: major * 100 + minor (minors stay below 100).
VersionNumber(v) == v[1] * 100 + v[2]

\* Whether callback f of kind t is in the table built last.
InTable(t, f) == \E j \in DOMAIN ast_funcs[t] : ast_funcs[t][j] = f

(* C3: version gating in the dispatch table.  Once a table is built, each  *)
(* callback of each registered fixer is in the table if and only if the    *)
(* fixer's name is enabled, its min_version is at most the target version  *)
(* in the lexicographic order, and it has no activation predicate or the   *)
(* predicate holds of the file; so a fixer with min_version (3, 0) has no  *)
(* callback in a table built for target (2, 2), and has all of them in a   *)
(* table built for (3, 0) or higher when it is enabled.                    *)
C3_VersionGating ==
    pc = "built" =>
        \A k \in DOMAIN Registered :
            LET fixer == Registered[k]
                on    == /\ fixer.name \in settings.enabled_fixers
                         /\ VersionNumber(fixer.min_version)
                              <= VersionNumber(settings.target_version)
                         /\ \/ fixer.condition = "None"
                            \/ /\ fixer.condition = "looks_like_admin_file"
                               /\ buildfile = "app/admin.py"
            IN  /\ \A t \in NodeKinds :
                     \A j \in DOMAIN fixer.ast_funcs[t] :
                         InTable(t, fixer.ast_funcs[t][j]) <=> on
                /\ (fixer.min_version = <<3, 0>> /\ settings.target_version = <<2, 2>>)
                     => \A t \in NodeKinds : \A j \in DOMAIN fixer.ast_funcs[t] :
                            ~InTable(t, fixer.ast_funcs[t][j])
                /\ ( /\ fixer.min_version = <<3, 0>>
                     /\ fixer.condition = "None"
                     /\ fixer.name \in settings.enabled_fixers
                     /\ settings.target_version[1] >= 3 )
                     => \A t \in NodeKinds : \A j \in DOMAIN fixer.ast_funcs[t] :
                            InTable(t, fixer.ast_funcs[t][j])

\* A table built for target (2, 2) with every fixer enabled: the (2, 0) fixer
\* is in it and the (3, 0) fixer, though enabled, is not.
C3_Witness ==
    /\ pc = "built"
    /\ settings.target_version = <<2, 2>>
    /\ \E k \in DOMAIN Registered :
          /\ Registered[k].min_version = <<3, 0>>
          /\ Registered[k].name \in settings.enabled_fixers
          /\ Registered[k].ast_funcs["Import"] = <<"visit_Import">>
    /\ ~InTable("Import", "visit_Import")
    /\ InTable("Assign", "visit_Assign")

(* C4: enabled-rule selection.  Once the Settings object is constructed,   *)
(* a name is enabled if and only if it is registered, is in the allow-list *)
(* when one is given, and is not in the deny-list when one is given; a     *)
(* name in both lists is disabled, and with neither list every registered  *)
(* fixer is enabled.                                                       *)
C4_EnabledSelection ==
    pc \in {"configured", "built"} =>
        /\ \A n \in FixerNames \cup settings.enabled_fixers :
              n \in settings.enabled_fixers <=>
                  /\ HasKey(FIXERS, n)
                  /\ argv.only.given => n \in argv.only.names
                  /\ argv.skip.given => n \notin argv.skip.names
        /\ \A n \in argv.only.names \cap argv.skip.names :
              n \notin settings.enabled_fixers
        /\ (~argv.only.given /\ ~argv.skip.given)
              => settings.enabled_fixers = DictKeys(FIXERS)

\* A Settings object built from an allow-list and a deny-list that share a
\* registered name: the name is disabled.
C4_Witness ==
    /\ pc = "configured"
    /\ argv.only.given /\ argv.skip.given
    /\ \E n \in argv.only.names \cap argv.skip.names :
          HasKey(FIXERS, n) /\ n \notin settings.enabled_fixers
    /\ Len(FIXERS) > Len(LoadedFIXERS)

\* The references of the Fixer objects constructed with a name, the heap
\* holding the objects in the order of their construction.
ConstructedAs(name) == {r \in DOMAIN heap : heap[r].name = name}

\* The references the catalogue holds.
Catalogued == {FIXERS[k].ref : k \in DOMAIN FIXERS}

\* The callbacks bound to kind t on the Fixer objects of a set of references.
BoundOn(refs, t) ==
    UNION {Range(heap[r].ast_funcs[t]) : r \in refs}

(* C14: registry last-write-wins.  After any sequence of registrations the *)
(* catalogue holds exactly one entry per name of a constructed Fixer, the  *)
(* name being the last dotted component of its module name, and the entry  *)
(* is the Fixer constructed last with that name; a colliding registration  *)
(* leaves the earlier Fixer out of the catalogue, so a callback bound only *)
(* on uncatalogued Fixers is in no dispatch table.                         *)
C14_LastWriteWins ==
    /\ \A j, k \in DOMAIN FIXERS : FIXERS[j].name = FIXERS[k].name => j = k
    /\ {FIXERS[k].name : k \in DOMAIN FIXERS} = {heap[r].name : r \in DOMAIN heap}
    /\ {FIXERS[k].name : k \in DOMAIN FIXERS} \subseteq FixerNames
    /\ \A k \in DOMAIN FIXERS :
          /\ FIXERS[k].ref \in ConstructedAs(FIXERS[k].name)
          /\ \A r \in ConstructedAs(FIXERS[k].name) : r <= FIXERS[k].ref
    /\ pc = "built" =>
          \A t \in NodeKinds :
              \A f \in BoundOn(DOMAIN heap \ Catalogued, t) \ BoundOn(Catalogued, t) :
                  ~InTable(t, f)

\* A module plugins.psycopg2_to_psycopg3 was imported after the package's
\* own: the catalogue still has three entries, the third now the plugin's
\* Fixer, and a table built for 5.1 with every fixer enabled calls the
\* plugin's callback on Import nodes and not the package's.
C14_Witness ==
    /\ pc = "built"
    /\ Len(heap) = 4 /\ Len(FIXERS) = 3
    /\ heap[3].name = "psycopg2_to_psycopg3" /\ heap[4].name = "psycopg2_to_psycopg3"
    /\ FIXERS[3] = [name |-> "psycopg2_to_psycopg3", ref |-> 4]
    /\ heap[4].condition = "None" /\ heap[4].min_version = <<1, 10>>
    /\ settings.target_version = <<5, 1>>
    /\ settings.enabled_fixers = {"admin_allow_tags", "format_html", "psycopg2_to_psycopg3"}
    /\ ast_funcs["Import"] = <<"plugin_import">>
    /\ heap[3].ast_funcs["Import"] = <<"visit_Import">>

\* Whether the catalogue's k-th fixer survives the selection of the table
\* built last.
Survives(k) ==
    /\ Registered[k].name \in settings.enabled_fixers
    /\ VersionNumber(Registered[k].min_version) <= VersionNumber(settings.target_version)
    /\ Registered[k].condition = "looks_like_admin_file" => buildfile = "app/admin.py"

(* C15: dispatch table order.  For every node kind, the callback list of   *)
(* the table built last is the concatenation, in the catalogue's iteration *)
(* order, of the surviving fixers' own lists for that kind, and a fixer's  *)
(* own list holds its callbacks in the order they were bound: nothing is   *)
(* dropped, duplicated or reordered.                                       *)
C15_TableOrder ==
    /\ pc = "built" =>
          \A t \in NodeKinds :
              ast_funcs[t] = Flatten([k \in DOMAIN FIXERS |->
                                        IF Survives(k) THEN Registered[k].ast_funcs[t]
                                        ELSE <<>>])
    /\ \A r \in DOMAIN heap :
          /\ Len(heap[r].ast_funcs["Assign"]) = 2
                => heap[r].ast_funcs["Assign"] = <<"extra_first", "extra_second">>
          /\ \A t \in NodeKinds :
                \A i, j \in DOMAIN heap[r].ast_funcs[t] :
                    heap[r].ast_funcs[t][i] = heap[r].ast_funcs[t][j] => i = j

\* A table built with the package's fixers and plugins.extra all surviving:
\* Assign nodes get the package's callback, then the plugin's two in the
\* order it bound them around its Import callback.
C15_Witness ==
    /\ pc = "built"
    /\ Len(FIXERS) = 4 /\ FIXERS[4].name = "extra"
    /\ \A k \in DOMAIN FIXERS : Survives(k)
    /\ ast_funcs["Assign"] = <<"visit_Assign", "extra_first", "extra_second">>
    /\ ast_funcs["Import"] = <<"visit_Import", "extra_import">>
    /\ ast_funcs["ImportFrom"] = <<"visit_Import">>
    /\ ast_funcs["Call"] = <<"visit_Call">>

\* The table a build for the file f gives from the present catalogue and
\* settings.
TableFor(f) == get_ast_funcs(heap, FIXERS, NewState(settings, f), settings)

(* C16 as stated: the dispatch table is a pure function of the target      *)
(* version and the enabled set; for the catalogue and settings of the      *)
(* table built last, a build for any other filename gives the same table.  *)
C16_TablePurity ==
    pc = "built" => \A f \in Filenames : TableFor(f) = ast_funcs

(* C16, amended: when no fixer of the catalogue has an activation          *)
(* condition, the dispatch table is a pure function of the target version  *)
(* and the enabled set: builds with the same catalogue and settings give   *)
(* the same table whatever the filename.                                   *)
C16_TablePurityWithoutConditions ==
    (pc = "built" /\ \A k \in DOMAIN FIXERS : Registered[k].condition = "None")
        => \A f \in Filenames : TableFor(f) = ast_funcs

\* A table built for app/views.py from a catalogue of four fixers without
\* conditions, all of them surviving.
C16_Witness ==
    /\ pc = "built"
    /\ buildfile = "app/views.py"
    /\ Len(FIXERS) = 4
    /\ \A k \in DOMAIN FIXERS : Registered[k].condition = "None" /\ Survives(k)
    /\ ast_funcs["Assign"] = <<"visit_Assign", "extra_first", "extra_second">>
    /\ TableFor("app/admin.py") = ast_funcs

(***************************************************************************)
(* The texts of the model.                                                 *)
(***************************************************************************)

\* The depths a line may have after the line l.
\* The depths a line may have after the lines p: deeper than a block opener
\* by one of `steps` levels, else one of the depths still open.
NextDepths(p, steps) ==
    IF Last(p).stmt.form = "def" THEN {Last(p).indent + s : s \in steps}
    ELSE IndentsAt(p, Len(p))

RECURSIVE ProgramsOfLen(_, _, _)
\* The sequences of n lines [indent, stmt] over vocab that nest properly.
ProgramsOfLen(vocab, n, steps) ==
    IF n = 0 THEN {<<>>}
    ELSE IF n = 1 THEN {<<[indent |-> 0, stmt |-> s]>> : s \in vocab}
    ELSE UNION {{Append(p, [indent |-> d, stmt |-> s]) :
                    d \in NextDepths(p, steps), s \in vocab} :
                p \in ProgramsOfLen(vocab, n - 1, steps)}

\* The text of a sequence of lines.
TextOf(p) ==
    Flatten([k \in DOMAIN p |->
                (IF p[k].indent > 0 THEN <<Spaces(p[k].indent)>> ELSE <<>>)
                \o Lexemes(p[k].stmt) \o <<"\n">>])

\* The texts of at most maxlines lines over vocab that parse, a block being
\* indented by one of `steps` levels.
ProgramsBy(vocab, maxlines, steps) ==
    {TextOf(p) : p \in {q \in UNION {ProgramsOfLen(vocab, n, steps) :
                                        n \in 0 .. maxlines} :
                            q = <<>> \/ Last(q).stmt.form # "def"}}

\* The same, every block indented by one level.
Programs(vocab, maxlines) == ProgramsBy(vocab, maxlines, {1})

(***************************************************************************)
(* The tree walk as a state machine: one step is one iteration of visit's  *)
(* while loop.                                                             *)
(***************************************************************************)

MaxWalkLines == 3

WalkVocabulary ==
    {Import(<< Alias(<<"psycopg2">>, "pg"), Alias(<<"psycopg2">>, "") >>),
     ImportFrom(<<"django", "contrib">>, << Alias(<<"admin">>, "") >>, 0),
     ImportFrom(<<"django", "contrib">>, << Alias(<<"*">>, "") >>, 0),
     ImportFrom(<<"django">>, << Alias(<<"admin">>, "") >>, 1),
     ImportFrom(<<"djangox">>, << Alias(<<"admin">>, "") >>, 0),
     ImportFrom(<<"unittest">>, << Alias(<<"mock">>, "m"), Alias(<<"TestCase">>, "") >>, 0),
     AssignAttr("f", "allow_tags", "True"),
     Def("f")}

WalkTexts == Programs(WalkVocabulary, MaxWalkLines)

\* An extra fixer module for the walk: two callbacks on Assign, one on
\* Import, and one on ImportFrom that reads from_imports.
WalkExtraModule ==
    [module      |-> <<"plugins", "extra">>,
     min_version |-> <<1, 10>>,
     condition   |-> "None",
     binds       |-> << <<"Assign", "extra_first">>,
                        <<"Import", "extra_import">>,
                        <<"Assign", "extra_second">>,
                        <<"ImportFrom", "probe_admin">> >>]

WalkTargets == {"5.1"}

\* visit(tree, settings, filename) is entered: lines 155-165.
InitWalk ==
    /\ \E extra \in BOOLEAN :
         /\ heap = ImportFixers(LoadedHeap, LoadedFIXERS,
                                IF extra THEN <<WalkExtraModule>> ELSE <<>>)[1]
         /\ FIXERS = ImportFixers(LoadedHeap, LoadedFIXERS,
                                  IF extra THEN <<WalkExtraModule>> ELSE <<>>)[2]
    /\ \E t \in WalkTargets :
         settings = NewSettings(FIXERS, ParseTargetVersion(t), None_, None_)
    /\ \E text \in WalkTexts : tree = ast_parse(text)
    /\ state = NewState(settings, "app/admin.py")
    /\ table = get_ast_funcs(heap, FIXERS, state, settings)
    /\ nodes = StartWalk(heap, FIXERS, settings, "app/admin.py").nodes
    /\ ret = EmptyDict
    /\ visited = <<>>
    /\ queued = <<>>
    /\ ast_funcs = NoFuncs /\ buildfile = ""
    /\ pc = "visit"
    /\ IdleEngine /\ IdleMain

\* One iteration of the while loop: lines 166-211.
WalkStep ==
    /\ pc = "visit"
    /\ nodes # <<>>
    /\ LET w == VisitNode(tree, table,
                          [state |-> state, nodes |-> nodes, ret |-> ret,
                           visited |-> visited, queued |-> queued,
                           raised |-> FALSE])
       IN  /\ state' = w.state
           /\ nodes' = w.nodes
           /\ ret' = w.ret
           /\ visited' = w.visited
           /\ queued' = w.queued
           /\ pc' = IF w.raised THEN "raised" ELSE pc
    /\ UNCHANGED <<registryVars, buildVars, tree, table, engineVars, mainVars>>

\* The loop ends and visit returns ret: line 212.
WalkReturn ==
    /\ pc = "visit"
    /\ nodes = <<>>
    /\ pc' = "visited"
    /\ UNCHANGED <<registryVars, buildVars, walkVars, engineVars, mainVars>>

NextWalk == WalkStep \/ WalkReturn

SpecWalk == InitWalk /\ [][NextWalk]_vars

RECURSIVE Preorder(_, _)
\* The nodes of the subtree of tr at id: the node, then the subtrees of its
\* children, field by field in declared order and item by item.
Preorder(tr, id) ==
    <<id>> \o
    Flatten([k \in DOMAIN tr[id].fields |->
        LET f == tr[id].fields[k]
        IN  CASE f.tag = "node" -> Preorder(tr, f.node)
              [] f.tag = "list" -> Flatten([j \in DOMAIN f.items |-> Preorder(tr, f.items[j])])
              [] OTHER -> <<>>])

\* s is the start of t
IsPrefix(s, t) == Len(s) <= Len(t) /\ s = SubSeq(t, 1, Len(s))

\* C6: the nodes visit has processed are at every moment the start of the
\* pre-order listing of the tree (a node before its descendants, siblings in
\* declared left-to-right order), no node twice; every iteration processes
\* one more node, and when the stack is empty the listing is complete, every
\* node of the tree processed exactly once.
C6_PreOrderWalk ==
    /\ IsPrefix(visited, Preorder(tree, RootId))
    /\ \A j, k \in DOMAIN visited : visited[j] = visited[k] => j = k
    /\ nodes = <<>> <=> visited = Preorder(tree, RootId)
    /\ nodes = <<>> => Range(visited) = DOMAIN tree
    /\ pc = "visited" => nodes = <<>>

\* A finished walk of a tree in which a function definition with a body is
\* followed by a sibling statement.
C6_Witness ==
    /\ pc = "visited"
    /\ LET body == Attr(tree[RootId], "body").items
       IN  /\ Len(body) = 2
           /\ tree[body[1]].kind = "FunctionDef"
           /\ tree[Attr(tree[body[1]], "body").items[1]].kind = "Assign"
           /\ tree[body[2]].kind = "ImportFrom"
    /\ Len(visited) = Cardinality(DOMAIN tree)

\* The statements of the module's own body: the top (non-nested) scope.
TopScope == Range(Attr(tree[RootId], "body").items)

\* The import-from node id, already processed, imports name n from module m
\* unrenamed, not as a wildcard and not relatively.
ImportsPlainly(id, m, n) ==
    /\ id \in Range(visited)
    /\ tree[id].kind = "ImportFrom"
    /\ Attr(tree[id], "level").num = 0
    /\ Attr(tree[id], "module").tag = "value"
    /\ Attr(tree[id], "module").val = m
    /\ \E j \in DOMAIN Attr(tree[id], "names").items :
         LET alias == tree[Attr(tree[id], "names").items[j]]
         IN  /\ Attr(alias, "name").val = n
             /\ Attr(alias, "asname").tag = "none"
             /\ n # <<"*">>

\* C7: a name is recorded in from_imports only by an import-from statement
\* at top (non-nested) scope; an import-from nested inside a function body
\* never adds a name.
C7_TopScopeOnly ==
    \A m \in DOMAIN state.from_imports :
        \A n \in state.from_imports[m] :
            \E id \in TopScope : ImportsPlainly(id, m, n)

\* m is django, a dotted submodule of django, or unittest
TrackedModule(m) == m[1] = "django" \/ m = <<"unittest">>

\* C8: every name in from_imports[m] was imported by an import-from of the
\* module m, m being django, a dotted submodule of django or unittest, and
\* was imported under its own name; a renamed name, a wildcard and an import
\* from an untracked module are never recorded.
C8_ImportFilter ==
    \A m \in DOMAIN state.from_imports :
        \A n \in state.from_imports[m] :
            /\ TrackedModule(m)
            /\ n # <<"*">>
            /\ \E id \in DOMAIN tree : ImportsPlainly(id, m, n)

\* A finished walk over a renamed and a plain name from unittest, a wildcard
\* import and an import from a module whose name only starts like django's:
\* the plain name alone is recorded.
C8_Witness ==
    /\ pc = "visited"
    /\ \E a, b, c \in TopScope :
         /\ tree[a].kind = "ImportFrom" /\ Attr(tree[a], "module").val = <<"unittest">>
         /\ tree[b].kind = "ImportFrom" /\ Attr(tree[b], "module").val = <<"djangox">>
         /\ tree[c].kind = "ImportFrom"
         /\ Attr(tree[Attr(tree[c], "names").items[1]], "name").val = <<"*">>
    /\ state.from_imports[<<"unittest">>] = {<<"TestCase">>}
    /\ \A m \in DOMAIN state.from_imports :
         m # <<"unittest">> => state.from_imports[m] = {}

(***************************************************************************)
(* The edit engine: the reverse pass of apply_fixers over the tokens.      *)
(***************************************************************************)

RECURSIVE FixupFromSkippingPair(_, _)
\* A mutant of FixupFrom: after a swap the loop goes on behind the pair.
FixupFromSkippingPair(toks, i) ==
    IF i > Len(toks) THEN [tokens |-> toks, raised |-> FALSE]
    ELSE IF toks[i].name = UNIMPORTANT_WS
    THEN IF i = Len(toks) THEN [tokens |-> toks, raised |-> TRUE]
         ELSE IF toks[i + 1].name = DEDENT
         THEN FixupFromSkippingPair(
                 [toks EXCEPT ![i] = toks[i + 1], ![i + 1] = toks[i]], i + 2)
         ELSE FixupFromSkippingPair(toks, i + 1)
    ELSE FixupFromSkippingPair(toks, i + 1)

RECURSIVE FixupFrom(_, _)
\* fixup_dedent_tokens from index i on, the list being read as it then is;
\* raised tells that tokens[i + 1] was read past the end of the list.
FixupFrom(toks, i) ==
    IF i > Len(toks) THEN [tokens |-> toks, raised |-> FALSE]
    ELSE IF toks[i].name = UNIMPORTANT_WS
    THEN IF i = Len(toks) THEN [tokens |-> toks, raised |-> TRUE]
         ELSE IF toks[i + 1].name = DEDENT
         THEN FixupFrom([toks EXCEPT ![i] = toks[i + 1], ![i + 1] = toks[i]], i + 1)
         ELSE FixupFrom(toks, i + 1)
    ELSE FixupFrom(toks, i + 1)

fixup_dedent_tokens(toks) == FixupFrom(toks, 1)

\* callbacks.get(token.offset, ())
DictGet(d, offset) == IF offset \in DOMAIN d THEN d[offset] ELSE <<>>

\* The token functions the engine is tried with besides the fixers' own:
\* each works at or after the index it is called with.
GenericEdit(fn) == [fn |-> fn, name |-> "", new |-> "", node |-> NoId, end |-> NoId]
GenericEdits == {GenericEdit("delete_span"), GenericEdit("insert_span"),
                 GenericEdit("replace_src")}

\* A token a token function makes: it has no place in the source.
NewToken(src) == Token("CODE", src, 0, 0, 0)

\* The first index from i on whose token has the source text name, or 0.
FindSrc(toks, i, name) ==
    IF \E k \in i .. Len(toks) : toks[k].src = name
    THEN CHOOSE k \in i .. Len(toks) :
            /\ toks[k].src = name
            /\ \A j \in i .. k - 1 : toks[j].src # name
    ELSE 0

\* replace_module_name(tokens, i, name=name, new=new)
replace_module_name(toks, i, name, new) ==
    LET k == FindSrc(toks, i, name)
    IN  IF k = 0 THEN toks ELSE [toks EXCEPT ![k].src = new]

\* s without its items from index a to index b
DelSlice(s, a, b) ==
    SubSeq(s, 1, a - 1) \o SubSeq(s, (IF b < Len(s) THEN b ELSE Len(s)) + 1, Len(s))

\* tokens.find(tokens, i, name=name, src=src): the first index from i on
\* whose token has that name and source text.
find(toks, i, name, src) ==
    CHOOSE k \in i .. Len(toks) :
        /\ toks[k].name = name /\ toks[k].src = src
        /\ \A j \in i .. k - 1 : ~(toks[j].name = name /\ toks[j].src = src)

\* tokens.find_last_token(tokens, i, node=node): the index of the last token
\* of the node, found from i on by the node's end position; a token an edit
\* made has no position (line 0) and is passed over.
find_last_token(toks, i, end) ==
    LET onLine(k) == toks[k].line # 0 /\ toks[k].line >= end[1]
        a == CHOOSE k \in i .. Len(toks) :
                onLine(k) /\ \A j \in i .. k - 1 : ~onLine(j)
        atCol(k) == toks[k].line # 0 /\ toks[k].utf8_byte_offset >= end[2]
        b == CHOOSE k \in a .. Len(toks) :
                atCol(k) /\ \A j \in a .. k - 1 : ~atCol(j)
    IN  b - 1

\* tokens.alone_on_line(tokens, start_idx, end_idx): the tokens are all there
\* is on their line but its indentation.
alone_on_line(toks, start_idx, end_idx) ==
    /\ start_idx > 2 /\ end_idx < Len(toks)
    /\ toks[start_idx - 2].name = "NL"
    /\ toks[start_idx - 1].name = UNIMPORTANT_WS
    /\ toks[end_idx + 1].name = "NL"

\* tokens.insert(tokens, i, new_src=new_src)
insert(toks, i, new_src) ==
    SubSeq(toks, 1, i - 1) \o <<NewToken(new_src)>> \o SubSeq(toks, i, Len(toks))

\* A mutant of rewrite_str_format: the opening span is deleted first, the
\* closing parenthesis after it at the index found before.
rewrite_str_format_open_first(toks, i, end) ==
    LET open_start == find(toks, i, "OP", ".")
        open_end   == find(toks, open_start, "OP", "(")
        cp         == find_last_token(toks, open_end, end)
        alone      == alone_on_line(toks, cp, cp)
        cp_start   == IF alone THEN cp - 1 ELSE cp
        cp_end     == IF alone THEN cp + 1 ELSE cp
    IN  insert(DelSlice(DelSlice(toks, open_start, open_end), cp_start, cp_end),
               open_start, ", ")

\* format_html.rewrite_str_format(tokens, i, node=node)
rewrite_str_format(toks, i, end) ==
    LET open_start == find(toks, i, "OP", ".")
        open_end   == find(toks, open_start, "OP", "(")
        cp         == find_last_token(toks, open_end, end)
        alone      == alone_on_line(toks, cp, cp)
        cp_start   == IF alone THEN cp - 1 ELSE cp
        cp_end     == IF alone THEN cp + 1 ELSE cp
    IN  insert(DelSlice(DelSlice(toks, cp_start, cp_end), open_start, open_end),
               open_start, ", ")

\* tokens.erase_node(tokens, i, node=node): the statement's line is erased
\* in full, from its indentation to its newline.
erase_node(toks, i, end) ==
    LET j     == find_last_token(toks, i, end)
        last  == IF j < Len(toks) /\ toks[j + 1].name = "NEWLINE" THEN j + 1 ELSE j
        first == IF i > 1 /\ toks[i - 1].name \in {"INDENT", UNIMPORTANT_WS}
                 THEN i - 1 ELSE i
    IN  DelSlice(toks, first, last)

\* callback(tokens, i): the list after the call.  The token function of an
\* extra fixer module ("marker") edits nothing.
ApplyTokenFunc(tf, toks, i) ==
    CASE tf.fn = "replace_module_name" -> replace_module_name(toks, i, tf.name, tf.new)
      [] tf.fn = "rewrite_str_format"  -> rewrite_str_format(toks, i, tf.end)
      [] tf.fn = "erase_node"   -> erase_node(toks, i, tf.end)
      [] tf.fn = "marker"       -> toks
      [] tf.fn = "delete_span"  -> DelSlice(toks, i, i + 1)
      [] tf.fn = "insert_span" -> insert(insert(toks, i, "+"), i, "+")
      [] tf.fn = "replace_src"  ->
            IF i <= Len(toks) THEN [toks EXCEPT ![i].src = "r"] ELSE toks

NoToken == Token("", "", 0, 0, 0)

\* A mutant of RunCallbacks: only the first callback of the offset is called.
RunCallbacksFirstOnly(toks, cbs, i, offset, hist) ==
    IF cbs = <<>> THEN [tokens |-> toks, calls |-> hist]
    ELSE [tokens |-> ApplyTokenFunc(cbs[1], toks, i),
          calls  |-> Append(hist, [fn |-> cbs[1], i |-> i, offset |-> offset,
                                   at |-> IF i <= Len(toks) THEN toks[i] ELSE NoToken])]

RECURSIVE RunCallbacks(_, _, _, _, _)
\* The inner loop of the reverse pass at index i on the callbacks cbs of
\* offset: each is called on the list the one before it left; hist records
\* every call with the token it found at i.
RunCallbacks(toks, cbs, i, offset, hist) ==
    IF cbs = <<>> THEN [tokens |-> toks, calls |-> hist]
    ELSE RunCallbacks(ApplyTokenFunc(cbs[1], toks, i), Tail(cbs), i, offset,
                      Append(hist, [fn |-> cbs[1], i |-> i, offset |-> offset,
                                    at |-> IF i <= Len(toks) THEN toks[i] ELSE NoToken]))

\* A mutant of the iteration: the token's text is not looked at.
EngineIterationNotSkipping(toks, cbs, i, hist) ==
    RunCallbacks(toks, DictGet(cbs, OffsetOf(toks[i])), i, OffsetOf(toks[i]), hist)

\* One iteration of the reverse pass, at index i.
EngineIteration(toks, cbs, i, hist) ==
    IF toks[i].src = "" THEN [tokens |-> toks, calls |-> hist]
    ELSE RunCallbacks(toks, DictGet(cbs, OffsetOf(toks[i])), i, OffsetOf(toks[i]), hist)

\* A mutant of reversed_enumerate: the indices in rising order.
forward_enumerate(n) == [k \in 1 .. n |-> k]

\* The indices reversed_enumerate yields for a list of n tokens, in order.
reversed_enumerate(n) == [k \in 1 .. n |-> n + 1 - k]

RECURSIVE RunEngine(_, _, _, _, _)
\* The reverse pass from its k-th iteration on, over the indices order.
RunEngine(toks, cbs, order, k, hist) ==
    IF k > Len(order) THEN [tokens |-> toks, calls |-> hist]
    ELSE LET e == EngineIteration(toks, cbs, order[k], hist)
         IN  RunEngine(e.tokens, cbs, order, k + 1, e.calls)

(***************************************************************************)
(* The reverse pass as a state machine: one step is one iteration of the   *)
(* loop over reversed_enumerate(tokens).                                   *)
(***************************************************************************)

MaxTokens == 3
MaxQueued == 2

\* The source texts of the engine's own token lists, token by token.
TokenSrcs == [k \in 1 .. MaxTokens |-> <<"a", "b", "c", "d", "e", "f", "g", "h">>[k]]

\* A token list of one line whose k-th token is empty where empties has k:
\* an empty token has the offset of the token after it.
TokenList(n, empties) ==
    [k \in 1 .. n |->
        Token(IF k \in empties THEN DEDENT ELSE "NAME",
              IF k \in empties THEN "" ELSE TokenSrcs[k],
              1, Cardinality({j \in 1 .. k - 1 : j \notin empties}), k)]

TokenLists == {TokenList(n, e) : n \in 0 .. MaxTokens, e \in SUBSET (1 .. MaxTokens)}

\* The offsets a pair may be queued at: those of the tokens of the longest
\* lists; a shorter list has no token at the higher ones.
EngineOffsets == {<<1, c>> : c \in 0 .. MaxTokens - 1}

RECURSIVE SeqsUpTo(_, _)
\* The sequences over S of length at most n.
SeqsUpTo(S, n) ==
    IF n = 0 THEN {<<>>}
    ELSE SeqsUpTo(S, n - 1) \cup
         {Append(q, x) : q \in {r \in SeqsUpTo(S, n - 1) : Len(r) = n - 1}, x \in S}

\* The texts whose walk feeds the engine.
EngineVocabulary ==
    {Import(<< Alias(<<"psycopg2">>, "pg"), Alias(<<"psycopg2">>, "") >>),
     ImportFrom(<<"psycopg2">>, << Alias(<<"x">>, "") >>, 0),
     Def("f")}

EngineTexts == Programs(EngineVocabulary, MaxQueued)

\* apply_fixers reaches its reverse pass, lines 201-219: with a token list
\* and queued pairs of any kind, or with those of a text of the model.
InitEngine ==
    /\ heap = LoadedHeap /\ FIXERS = LoadedFIXERS
    /\ settings = NewSettings(FIXERS, ParseTargetVersion("5.1"), None_, None_)
    /\ \/ /\ original \in TokenLists
          /\ queued \in SeqsUpTo(EngineOffsets \X GenericEdits, MaxQueued)
          /\ ret = AppendPairs(EmptyDict, queued)
       \/ \E text \in EngineTexts :
            LET w == visit(heap, FIXERS, ast_parse(text), settings, "app/views.py")
            IN  /\ original = fixup_dedent_tokens(src_to_tokens(text)).tokens
                /\ queued = w.queued
                /\ ret = w.ret
    /\ ret # EmptyDict
    /\ callbacks = ret
    /\ tokens = original
    /\ idx = 0
    /\ calls = <<>>
    /\ ast_funcs = NoFuncs /\ buildfile = ""
    /\ tree = NoTree /\ state = NoState /\ table = NoFuncs
    /\ nodes = <<>> /\ visited = <<>>
    /\ pc = "edit"
    /\ IdleMain

\* One iteration of the loop at lines 219-225, the idx + 1-th; tokens[i]
\* exists, since no token function of the model removes a token before the
\* index it is called with.
EngineStep ==
    /\ pc = "edit"
    /\ idx < Len(original)
    /\ LET i == reversed_enumerate(Len(original))[idx + 1]
       IN  /\ i <= Len(tokens)
           /\ LET e == EngineIteration(tokens, callbacks, i, calls)
              IN  /\ tokens' = e.tokens
                  /\ calls' = e.calls
    /\ idx' = idx + 1
    /\ UNCHANGED <<registryVars, buildVars, walkVars, original, callbacks, mainVars, pc>>

\* The loop is over: line 228.
EngineReturn ==
    /\ pc = "edit"
    /\ idx = Len(original)
    /\ pc' = "edited"
    /\ UNCHANGED <<registryVars, buildVars, walkVars, engineVars, mainVars>>

NextEngine == EngineStep \/ EngineReturn

SpecEngine == InitEngine /\ [][NextEngine]_vars

\* The record of the call of token function tf at index i, where it found
\* the token the source had there.
CallOnOriginal(tf, i) ==
    [fn |-> tf, i |-> i, offset |-> OffsetOf(original[i]), at |-> original[i]]

\* C1: when two token functions are queued at the different offsets of two
\* tokens, the one at the higher index working on a span of several tokens
\* at or after its index (deleting it, inserting it, replacing the token),
\* the function of the lower offset is still called with the index at which
\* the list holds the original token of that offset, and both are applied:
\* the list ends as the two calls in turn leave it.
C1_ReverseOrderIndependence ==
    (pc = "edited" /\ Len(queued) = 2) =>
        \A lo, hi \in DOMAIN original :
            ( /\ lo < hi
              /\ original[lo].src # "" /\ original[hi].src # ""
              /\ \E a, b \in 1 .. 2 :
                    /\ a # b
                    /\ queued[a][1] = OffsetOf(original[lo])
                    /\ queued[b][1] = OffsetOf(original[hi]) )
            => LET flo == (CHOOSE q \in Range(queued) : q[1] = OffsetOf(original[lo]))[2]
                   fhi == (CHOOSE q \in Range(queued) : q[1] = OffsetOf(original[hi]))[2]
               IN  /\ calls = <<CallOnOriginal(fhi, hi), CallOnOriginal(flo, lo)>>
                   /\ tokens = ApplyTokenFunc(flo, ApplyTokenFunc(fhi, original, hi), lo)

\* Three tokens, a replacement queued at the first and a deletion of two
\* tokens at the second: the pass has deleted the two and replaced the first.
C1_Witness ==
    /\ pc = "edited"
    /\ Len(original) = 3
    /\ \A k \in 1 .. 3 : original[k].src # ""
    /\ queued = << <<OffsetOf(original[1]), GenericEdit("replace_src")>>,
                   <<OffsetOf(original[2]), GenericEdit("delete_span")>> >>
    /\ Len(calls) = 2
    /\ Len(tokens) = 1
    /\ tokens[1].src = "r" /\ tokens[1].uid = 1

\* C5: the token functions queued at the offset of a token are called in the
\* order in which they were queued, each once, all with the index of the
\* token that has that offset.
C5_SameOffsetOrder ==
    pc = "edited" =>
        \A i \in DOMAIN original :
            original[i].src # "" =>
                LET AtOffset(c)     == c.offset = OffsetOf(original[i])
                    QueuedAt(q)     == q[1] = OffsetOf(original[i])
                    called          == SelectSeq(calls, AtOffset)
                    expected        == SelectSeq(queued, QueuedAt)
                IN  /\ Len(called) = Len(expected)
                    /\ \A k \in DOMAIN called :
                          /\ called[k].fn = expected[k][2]
                          /\ called[k].i = i

\* Two different token functions queued at the offset of one token, both
\* called.
C5_Witness ==
    /\ pc = "edited"
    /\ Len(queued) = 2
    /\ queued[1][1] = queued[2][1]
    /\ queued[1][2] = GenericEdit("delete_span")
    /\ queued[2][2] = GenericEdit("insert_span")
    /\ Len(calls) = 2
    /\ calls[1].i = calls[2].i
    /\ calls[1].fn # calls[2].fn

\* The indices of the tokens of the source that have no text but the offset
\* of a queued pair.
EmptyAnchors ==
    {i \in DOMAIN original :
        original[i].src = "" /\ OffsetOf(original[i]) \in DOMAIN callbacks}

\* C21 as stated: no token function is ever called with an index at which
\* the list then holds a token without text.
C21_EmptyNeverAnchors ==
    \A k \in DOMAIN calls :
        calls[k].at # NoToken => calls[k].at.src # ""

\* C21, amended: no token function is ever called with the index of a token
\* that had no text when the pass came to that index, whether or not pairs
\* are queued at that token's offset; the first call at an index finds a
\* token with text there.  (A token function called before at the same
\* index may leave a token without text there for the next one.)
C21_EmptySkipped ==
    /\ \A k \in DOMAIN calls : original[calls[k].i].src # ""
    /\ \A k \in DOMAIN calls :
          (\A j \in 1 .. k - 1 : calls[j].i # calls[k].i) => calls[k].at.src # ""
    /\ \A i \in EmptyAnchors : \A k \in DOMAIN calls : calls[k].i # i

\* The pass is over a list whose second token has no text and the offset of
\* the third, at which a pair is queued: the one call was at the third.
C21_Witness ==
    /\ pc = "edited"
    /\ Len(original) = 3
    /\ original[2].src = "" /\ original[3].src # ""
    /\ OffsetOf(original[2]) = OffsetOf(original[3])
    /\ 2 \in EmptyAnchors
    /\ Len(calls) = 1
    /\ calls[1].i = 3 /\ calls[1].at = original[3]

\* The reverse pass when every iteration of its loop is taken in time.
SpecEngineFair == SpecEngine /\ WF_vars(NextEngine)

\* Each queued offset is the offset of exactly one token with text.
QueuedAtOneToken ==
    \A k \in DOMAIN queued :
        Cardinality({i \in DOMAIN original :
                        original[i].src # "" /\ OffsetOf(original[i]) = queued[k][1]}) = 1

\* The calls made are those queued, each once: offset by offset the same
\* token functions in the same order.
EachCalledOnce ==
    /\ Len(calls) = Len(queued)
    /\ \A o \in {queued[k][1] : k \in DOMAIN queued} :
          LET AtOffset(c) == c.offset = o
              QueuedAt(q) == q[1] = o
              called      == SelectSeq(calls, AtOffset)
              expected    == SelectSeq(queued, QueuedAt)
          IN  /\ Len(called) = Len(expected)
              /\ \A k \in DOMAIN called : called[k].fn = expected[k][2]

\* The loop goes down the indices the list had at its start, one iteration
\* for each: no call is at a higher index than a call before it, and the
\* loop is over after as many iterations as the list had tokens.
EachIndexOnce ==
    /\ idx <= Len(original)
    /\ \A j, k \in DOMAIN calls : j < k => calls[j].i >= calls[k].i
    /\ pc = "edited" => idx = Len(original)

\* A call found at its index a token that a token function had put there.
OnInsertedToken(c) == c.at # NoToken /\ c.at.uid = 0

\* C23 as stated: when each queued offset is the offset of exactly one
\* token with text (the token functions all work at or after their index),
\* the pass calls each queued token function exactly once, none of them at
\* an index holding a token another one inserted, and it ends, having gone
\* through each index of the list once.
C23_EachEditOnce ==
    /\ [](QueuedAtOneToken =>
            /\ pc = "edited" => EachCalledOnce
            /\ \A k \in DOMAIN calls : ~OnInsertedToken(calls[k])
            /\ EachIndexOnce)
    /\ (QueuedAtOneToken => <>(pc = "edited"))

\* C23, amended: under the same condition the pass calls each queued token
\* function exactly once, the first one called at an index finds there the
\* token the source had at that index (a token function queued at the same
\* offset and called before may have put another token at the index), and
\* the pass ends, having gone through each index of the list once.
C23_EachEditOnceFirstOnOriginal ==
    /\ [](QueuedAtOneToken =>
            /\ pc = "edited" => EachCalledOnce
            /\ \A k \in DOMAIN calls :
                  (\A j \in 1 .. k - 1 : calls[j].i # calls[k].i)
                  => calls[k].at = original[calls[k].i]
            /\ EachIndexOnce)
    /\ (QueuedAtOneToken => <>(pc = "edited"))

\* Three tokens, an insertion queued at the third and a deletion of two
\* tokens at the first: both were called, on the tokens of the source, and
\* the pass is over after three iterations.
C23_Witness ==
    /\ pc = "edited"
    /\ QueuedAtOneToken
    /\ Len(original) = 3 /\ idx = 3
    /\ queued = << <<OffsetOf(original[3]), GenericEdit("insert_span")>>,
                   <<OffsetOf(original[1]), GenericEdit("delete_span")>> >>
    /\ Len(calls) = 2
    /\ calls[1].i = 3 /\ calls[1].at = original[3]
    /\ calls[2].i = 1 /\ calls[2].at = original[1]
    /\ Len(tokens) = 3 /\ tokens[1].uid = 0 /\ tokens[3] = original[3]

(***************************************************************************)
(* fixup_dedent_tokens on its own: the pass over a token list of any       *)
(* names, and over the lists the tokenizer gives for nested blocks.        *)
(***************************************************************************)

MaxFixupTokens == 5
MaxFixupLines == 4

\* The token names the pass tells apart: the two markers and any other.
FixupNames == {UNIMPORTANT_WS, DEDENT, "NAME"}

\* The token lists of at most MaxFixupTokens tokens over those names.
FixupLists ==
    {[k \in DOMAIN ns |->
        Token(ns[k],
              CASE ns[k] = UNIMPORTANT_WS -> " " [] ns[k] = DEDENT -> "" [] OTHER -> "a",
              1, k - 1, k)] :
     ns \in SeqsUpTo(FixupNames, MaxFixupTokens)}

\* Texts of nested blocks, indented by one level or by two at once, whose
\* tokens have whitespace before DEDENT.
FixupTexts == ProgramsBy({Def("f"), Pass}, MaxFixupLines, {1, 2})

\* apply_fixers has its tokens, line 210, or fixup_dedent_tokens is given a
\* list of any tokens.
InitFixup ==
    /\ heap = LoadedHeap /\ FIXERS = LoadedFIXERS
    /\ IdleBuild /\ IdleWalk /\ IdleMain
    /\ original \in FixupLists \cup {src_to_tokens(text) : text \in FixupTexts}
    /\ tokens = original
    /\ callbacks = <<>> /\ idx = 0 /\ calls = <<>>
    /\ pc = "fixup"

\* fixup_dedent_tokens(tokens), line 215: the list is changed in place, and
\* is left as it was when tokens[i + 1] raised IndexError.
FixupTokens ==
    /\ pc = "fixup"
    /\ \E r \in {fixup_dedent_tokens(tokens)} :
          /\ tokens' = r.tokens
          /\ pc' = IF r.raised THEN "raised" ELSE "fixed"
    /\ UNCHANGED <<registryVars, buildVars, walkVars, original, callbacks, idx,
                   calls, mainVars>>

NextFixup == FixupTokens

SpecFixup == InitFixup /\ [][NextFixup]_vars

\* Whether a whitespace marker is right before an end-of-block marker.
WsBeforeDedent(toks) ==
    \E i \in 1 .. Len(toks) - 1 :
        toks[i].name = UNIMPORTANT_WS /\ toks[i + 1].name = DEDENT

\* Whether a whitespace marker is followed by another, directly or with
\* end-of-block markers only between the two.
WsFollowsWs(toks) ==
    \E i, j \in DOMAIN toks :
        /\ i < j
        /\ toks[i].name = UNIMPORTANT_WS /\ toks[j].name = UNIMPORTANT_WS
        /\ \A k \in i + 1 .. j - 1 : toks[k].name = DEDENT

\* Where the token with the uid u is in toks.
PlaceOf(toks, u) == CHOOSE i \in DOMAIN toks : toks[i].uid = u

\* The list `tokens` holds the tokens of `original`, each once.
IsPermutation ==
    /\ Len(tokens) = Len(original)
    /\ \A i \in DOMAIN original : \E j \in DOMAIN tokens : tokens[j] = original[i]

\* Two tokens stand in another order than before only if the first was a
\* whitespace marker and the second an end-of-block marker.
OrderKept ==
    \A i, j \in DOMAIN original :
        (i < j /\ PlaceOf(tokens, original[i].uid) > PlaceOf(tokens, original[j].uid))
        => (original[i].name = UNIMPORTANT_WS /\ original[j].name = DEDENT)

\* The list given is one of the tokenizer: it ends in the ENDMARKER, which
\* no list of FixupLists holds.
FromTokenizer == original # <<>> /\ Last(original).name = "ENDMARKER"

\* C22 as stated: after fixup_dedent_tokens has run over any token list, no
\* whitespace marker is right before an end-of-block marker, the list is a
\* permutation of the one given and only whitespace and end-of-block
\* markers have changed their order.
C22_DedentNormalised ==
    pc = "fixed" => (~WsBeforeDedent(tokens) /\ IsPermutation /\ OrderKept)

\* C22, amended: after fixup_dedent_tokens has run over a token list in
\* which no whitespace marker is followed by another, directly or with
\* end-of-block markers only between the two, no whitespace marker is right
\* before an end-of-block marker; after it has run over any token list, the
\* list is a permutation of the one given and only whitespace and
\* end-of-block markers have changed their order.  The lists of the
\* tokenizer are of the first kind, and the pass completes on them.
C22_DedentNormalisedWithoutWsRuns ==
    /\ pc = "fixed" => (IsPermutation /\ OrderKept)
    /\ (pc = "fixed" /\ ~WsFollowsWs(original)) => ~WsBeforeDedent(tokens)
    /\ FromTokenizer
          => (~WsFollowsWs(original) /\ pc # "raised")

\* The tokens of a text whose last line closes one of two open blocks: the
\* whitespace before the DEDENT is behind it after the pass.
C22_Witness ==
    /\ pc = "fixed"
    /\ FromTokenizer
    /\ \E i \in 1 .. Len(original) - 1 :
          /\ original[i].name = UNIMPORTANT_WS /\ original[i + 1].name = DEDENT
          /\ tokens[i] = original[i + 1] /\ tokens[i + 1] = original[i]
    /\ ~WsBeforeDedent(tokens)

(***************************************************************************)
(* apply_fixers, fix_file and main.                                        *)
(***************************************************************************)

\* A mutant of ApplyFixersRun: the except clause of the tokenizer returns
\* an empty text.
ApplyFixersRunLosingText(h, dict, text, settings_, filename) ==
    IF ~Parses(text)
    THEN [text |-> text, calls |-> <<>>, stage |-> "SyntaxError", imports |-> NoImports]
    ELSE LET w   == visit(h, dict, ast_parse(text), settings_, filename)
             cbs == w.ret
             imp == w.state.from_imports
         IN  IF w.raised
             THEN [text |-> text, calls |-> <<>>, stage |-> "raised", imports |-> imp]
             ELSE IF cbs = EmptyDict
             THEN [text |-> text, calls |-> <<>>, stage |-> "no callbacks",
                   imports |-> imp]
             ELSE IF UnindentFails(text)
             THEN [text |-> text, calls |-> <<>>, stage |-> "IndentationError",
                   imports |-> imp]
             ELSE IF TokenizeFails(text)
             THEN [text |-> <<>>, calls |-> <<>>, stage |-> "TokenError", imports |-> imp]
             ELSE LET toks == fixup_dedent_tokens(src_to_tokens(text)).tokens
                      e    == RunEngine(toks, cbs, reversed_enumerate(Len(toks)), 1, <<>>)
                  IN  [text |-> tokens_to_src(e.tokens), calls |-> e.calls,
                       stage |-> "edited", imports |-> imp]

\* apply_fixers(contents_text, settings, filename) over the catalogue
\* (h, dict): the text it returns, the calls of token functions it made and
\* the return statement it left by, or "raised" when a callback of the walk
\* raised and "IndentationError" when src_to_tokens raised it, which the
\* except clause of tokenize.TokenError does not catch (the text is then the
\* one it was given: it returns none); imports
\* is the from_imports of the State object visit made, as the walk left it.
ApplyFixersRun(h, dict, text, settings_, filename) ==
    IF ~Parses(text)
    THEN [text |-> text, calls |-> <<>>, stage |-> "SyntaxError", imports |-> NoImports]
    ELSE CHOOSE r \in
           {IF w.raised
            THEN [text |-> text, calls |-> <<>>, stage |-> "raised",
                  imports |-> w.state.from_imports]
            ELSE IF w.ret = EmptyDict
            THEN [text |-> text, calls |-> <<>>, stage |-> "no callbacks",
                  imports |-> w.state.from_imports]
            ELSE IF UnindentFails(text)
            THEN [text |-> text, calls |-> <<>>, stage |-> "IndentationError",
                  imports |-> w.state.from_imports]
            ELSE IF TokenizeFails(text)
            THEN [text |-> text, calls |-> <<>>, stage |-> "TokenError",
                  imports |-> w.state.from_imports]
            ELSE CHOOSE edited \in
                   {[text |-> tokens_to_src(e.tokens), calls |-> e.calls,
                     stage |-> "edited", imports |-> w.state.from_imports] :
                       e \in {RunEngine(toks, w.ret, reversed_enumerate(Len(toks)),
                                        1, <<>>) :
                                 toks \in {fixup_dedent_tokens(src_to_tokens(text)).tokens}}}
                   : TRUE
            : w \in {visit(h, dict, ast_parse(text), settings_, filename)}}
         : TRUE

apply_fixers(h, dict, text, settings_, filename) ==
    ApplyFixersRun(h, dict, text, settings_, filename).text

\* The contents of a file or stream: bytes that decode to a text, or bytes
\* that are not valid UTF-8.
Utf8(text) == [utf8 |-> TRUE, text |-> text]
NotUtf8    == [utf8 |-> FALSE, text |-> <<>>]

\* What is printed: a line about a file, or a text.
Printed(kind, filename, text) == [kind |-> kind, filename |-> filename, text |-> text]

\* A mutant of ChangedStatus: every file that was processed counts as changed.
ChangedStatusAlways(text, text_orig, exit_zero_even_if_changed) ==
    IF exit_zero_even_if_changed THEN 0 ELSE 1

\* The return statements at lines 190-192.
ChangedStatus(text, text_orig, exit_zero_even_if_changed) ==
    IF exit_zero_even_if_changed THEN 0
    ELSE IF text # text_orig THEN 1 ELSE 0

\* A mutant of DecodeErrorResult: the exit-zero flag is honoured.
DecodeErrorResultHonouringFlag(filename, exit_zero_even_if_changed) ==
    [ret |-> IF exit_zero_even_if_changed THEN 0 ELSE 1,
     stage |-> "UnicodeDecodeError", text |-> <<>>, calls |-> <<>>,
     stdout |-> <<Printed("non-utf-8", filename, <<>>)>>, stderr |-> <<>>,
     write |-> FALSE, imports |-> NoImports]

\* The except clause at lines 177-179: what fix_file does when the bytes do
\* not decode.
DecodeErrorResult(filename, exit_zero_even_if_changed) ==
    [ret |-> 1, stage |-> "UnicodeDecodeError", text |-> <<>>, calls |-> <<>>,
     stdout |-> <<Printed("non-utf-8", filename, <<>>)>>, stderr |-> <<>>,
     write |-> FALSE, imports |-> NoImports]

\* A mutant of WritesFile: a file is written whether its text changed or not.
WritesFileAlways(filename, text, text_orig) == filename # "-"

\* The tests at lines 183-185 that lead to the write of the file.
WritesFile(filename, text, text_orig) == filename # "-" /\ text # text_orig

\* The exits of apply_fixers by an exception.
Exceptions == {"raised", "IndentationError"}

\* fix_file(filename, settings, exit_zero_even_if_changed) on the bytes read:
\* what it returns, prints and writes; when apply_fixers raises it prints
\* nothing, writes nothing and returns nothing.
FixFileRun(h, dict, filename, bytes, settings_, exit_zero_even_if_changed) ==
    IF ~bytes.utf8
    THEN DecodeErrorResult(filename, exit_zero_even_if_changed)
    ELSE LET run == ApplyFixersRun(h, dict, bytes.text, settings_, filename)
         IN  [ret    |-> ChangedStatus(run.text, bytes.text, exit_zero_even_if_changed),
              stage  |-> run.stage,
              text   |-> run.text,
              calls  |-> run.calls,
              stdout |-> IF filename = "-" /\ run.stage \notin Exceptions
                         THEN <<Printed("text", "", run.text)>> ELSE <<>>,
              stderr |-> IF WritesFile(filename, run.text, bytes.text)
                         THEN <<Printed("Rewriting", filename, <<>>)>> ELSE <<>>,
              write  |-> WritesFile(filename, run.text, bytes.text),
              imports |-> run.imports]

\* A mutant of fixer_type: every name is taken.
fixer_type_any(dict, string) == TRUE

\* fixer_type(string): TRUE when it returns the string, FALSE when it raises
\* argparse.ArgumentTypeError.
fixer_type(dict, string) == HasKey(dict, string)

\* Whether parse_args rejects the option as it reads it: a --target-version
\* that is not among the choices, or an --only / --skip name fixer_type
\* rejects.
OptionRejected(dict, args, opt) ==
    \/ opt = "--target-version" /\ args.target_version \notin TargetChoices
    \/ opt = "--only" /\ \E n \in args.only.names : ~fixer_type(dict, n)
    \/ opt = "--skip" /\ \E n \in args.skip.names : ~fixer_type(dict, n)

RECURSIVE ParseFrom(_, _, _)
\* parser.parse_args(argv) from the k-th option on.  The options are read
\* in the order of the command line and each one acts as it is read:
\* --list-fixers and --version leave the process at once, a rejected value
\* ends in parser.error.  The filenames are required (nargs="+"), which is
\* tested when all options are read.
ParseFrom(dict, args, k) ==
    IF k > Len(args.order)
    THEN (IF args.filenames = <<>> THEN "error" ELSE "parsed")
    ELSE IF OptionRejected(dict, args, args.order[k]) THEN "error"
    ELSE IF args.order[k] = "--list-fixers" THEN "listed"
    ELSE IF args.order[k] = "--version" THEN "version"
    ELSE ParseFrom(dict, args, k + 1)

\* How parser.parse_args(argv) ends: "parsed" when it returns, "error" in
\* parser.error, "listed" in ListFixersAction, "version" in the version
\* action.
parse_args(dict, args) == ParseFrom(dict, args, 1)

\* Whether parser.parse_args(argv) ends in parser.error.
ParseArgsFails(dict, args) == parse_args(dict, args) = "error"

\* The names fixers of the model can have, in the order of sorted().
NameOrder ==
    <<"admin_allow_tags", "broken", "extra", "format_html", "psycopg2_to_psycopg3">>

\* sorted(FIXERS): the names of the catalogue in order.
SortedNames(dict) ==
    LET Catalogued_(n) == HasKey(dict, n)
    IN  SelectSeq(NameOrder, Catalogued_)

\* A mutant of OrStatus: the status of the last file wins.
LastStatus(ret_, r) == r

\* ret |= fix_file(...)
OrStatus(ret_, r) == IF ret_ = 1 \/ r = 1 THEN 1 ELSE 0

(***************************************************************************)
(* A run of main as a state machine: the arguments are parsed and the      *)
(* settings built, then one step is one iteration of the loop over the     *)
(* filenames, a whole call of fix_file.                                    *)
(***************************************************************************)

MaxFiles == 2

\* A fixer module of a caller with two callbacks on function definitions:
\* the first yields an edit, the second raises on every one.
RaisingModule ==
    [module      |-> <<"plugins", "broken">>,
     min_version |-> <<1, 10>>,
     condition   |-> "None",
     binds       |-> << <<"FunctionDef", "extra_first">>,
                        <<"FunctionDef", "raise_error">> >>]

\* The target versions of the runs: the default and the first version the
\* psycopg2 fixer works for.
MainTargets == {"2.2", "3.0"}

\* The --only and --skip lists of the runs.
MainSelections ==
    {<<None_, None_>>,
     <<Some({"psycopg2_to_psycopg3"}), None_>>,
     <<Some({"admin_allow_tags"}), None_>>,
     <<None_, Some({"psycopg2_to_psycopg3"})>>}

\* Bytes whose text is not in the grammar: an indented first line.
Unparsable ==
    Utf8(TextOf(<<[indent |-> 1, stmt |-> Import(<< Alias(<<"psycopg2">>, "") >>)]>>))

\* The contents of the files of the runs: a text a fixer rewrites, one no
\* fixer matches, one that does not parse for its indentation, one that
\* ends in a continuation (it does not parse, nor would it tokenize), one
\* that ends in a continuation after a carriage return and a line feed (it
\* parses and does not tokenize), one whose last line is such a continuation
\* indented less than the block before it, to a depth that is not open (it
\* parses and the tokenizer raises IndentationError), one with a nested
\* statement rewritten twice, and bytes that do not decode.
SampleBytes ==
    {Utf8(TextOf(<<[indent |-> 0, stmt |-> Import(<< Alias(<<"psycopg2">>, "") >>)]>>)),
     Utf8(TextOf(<<[indent |-> 0, stmt |-> Import(<< Alias(<<"os">>, "") >>)]>>)),
     Unparsable,
     Utf8(TextOf(<<[indent |-> 0, stmt |-> Import(<< Alias(<<"psycopg2">>, "") >>)]>>)
          \o <<Continuation>>),
     Utf8(TextOf(<<[indent |-> 0, stmt |-> Import(<< Alias(<<"psycopg2">>, "") >>)]>>)
          \o <<CrLfContinuation>>),
     Utf8(TextOf(<<[indent |-> 0, stmt |-> Def("f")],
                   [indent |-> 2, stmt |-> Import(<< Alias(<<"psycopg2">>, "") >>)]>>)
          \o <<Spaces(1), CrLfContinuation>>),
     Utf8(TextOf(<<[indent |-> 0, stmt |-> Def("f")],
                   [indent |-> 1,
                    stmt |-> Import(<< Alias(<<"psycopg2">>, "pg"),
                                       Alias(<<"psycopg2">>, "") >>)]>>)),
     NotUtf8}

\* The contents of the second file and of the input stream.
StreamBytes ==
    {Utf8(TextOf(<<[indent |-> 0, stmt |-> Import(<< Alias(<<"psycopg2">>, "") >>)]>>)),
     NotUtf8}

Paths == Filenames \ {"-"}

\* The options of a command line that gives the target version, then the
\* --only names and the --skip names it has.
PlainOrder(only, skip) ==
    <<"--target-version">> \o (IF only.given THEN <<"--only">> ELSE <<>>)
                           \o (IF skip.given THEN <<"--skip">> ELSE <<>>)

\* A configuration of a run: the values of the options and their order on
\* the command line, and the fixer modules imported besides the package's.
MainConfig(target_version, only, skip, order, plugins) ==
    [target_version |-> target_version, only |-> only, skip |-> skip,
     order |-> order, plugins |-> plugins]

\* The configurations of the runs: a target version with an --only and a
\* --skip list, among them a version that is no choice and lists that name
\* no fixer, and a plugin module.
MainConfigs ==
    {MainConfig(t, sel[1], sel[2], PlainOrder(sel[1], sel[2]), <<>>) :
        t \in MainTargets, sel \in MainSelections}
    \cup {MainConfig("9.9", None_, None_, <<"--target-version">>, <<>>),
          MainConfig("3.0", Some({"nope"}), None_, <<"--target-version", "--only">>, <<>>),
          MainConfig("3.0", None_, Some({"psycopg2_to_psycopg3", "nope"}),
                     <<"--target-version", "--skip">>, <<>>),
          MainConfig("3.0", None_, None_, <<"--target-version">>, <<RaisingModule>>)}

\* Command lines with --list-fixers or --version: alone, before a value
\* that is rejected and after one.
ExitConfigs ==
    {MainConfig("2.2", None_, None_, <<"--list-fixers">>, <<RaisingModule>>),
     MainConfig("9.9", None_, None_, <<"--list-fixers", "--target-version">>, <<>>),
     MainConfig("9.9", None_, None_, <<"--target-version", "--list-fixers">>, <<>>),
     MainConfig("2.2", Some({"nope"}), None_, <<"--only", "--list-fixers">>, <<>>),
     MainConfig("2.2", None_, None_, <<"--version">>, <<>>),
     MainConfig("2.2", None_, Some({"nope"}), <<"--version", "--skip">>, <<>>)}

\* The filenames of the runs of a configuration: none (the command line is
\* then rejected by a parser that reaches its end) or up to MaxFiles.
NamesOf(cfg) ==
    IF cfg \in ExitConfigs THEN {<<>>, <<"app/views.py">>}
    ELSE SeqsUpTo(Filenames, MaxFiles)

\* main(argv) is entered with files on disk and bytes on the input stream.
Init ==
    /\ \E cfg \in MainConfigs \cup ExitConfigs : \E names \in NamesOf(cfg), z \in BOOLEAN :
         /\ heap = ImportFixers(LoadedHeap, LoadedFIXERS, cfg.plugins)[1]
         /\ FIXERS = ImportFixers(LoadedHeap, LoadedFIXERS, cfg.plugins)[2]
         /\ argv = [filenames |-> names, target_version |-> cfg.target_version,
                    exit_zero_even_if_changed |-> z,
                    only |-> cfg.only, skip |-> cfg.skip, order |-> cfg.order]
    /\ \E b \in SampleBytes, c \in StreamBytes :
         disk = [p \in Paths |-> IF p = "app/admin.py" THEN b ELSE c]
    /\ stdin \in StreamBytes \cup {Unparsable}
    /\ stdout = <<>> /\ stderr = <<>>
    /\ mainret = 0 /\ fileno = 0 /\ log = <<>>
    /\ pc = "main"
    /\ IdleBuild /\ IdleWalk /\ IdleEngine

\* Lines 50-113: the arguments are parsed and the settings built.
MainSetup ==
    /\ pc = "main"
    /\ parse_args(FIXERS, argv) = "parsed"
    /\ settings' = NewSettings(FIXERS, ParseTargetVersion(argv.target_version),
                               argv.only, argv.skip)
    /\ pc' = "loop"
    /\ UNCHANGED <<registryVars, ast_funcs, buildfile, walkVars, engineVars, mainVars>>

\* ListFixersAction.__call__, called by parse_args at line 102: the names
\* of the catalogue are printed in sorted order, one a line, and
\* parser.exit() ends the process with status 0.
ListFixers ==
    /\ pc = "main"
    /\ parse_args(FIXERS, argv) = "listed"
    /\ stdout' = stdout \o [k \in DOMAIN SortedNames(FIXERS) |->
                               Printed("fixer", SortedNames(FIXERS)[k], <<>>)]
    /\ mainret' = 0
    /\ pc' = "exit"
    /\ UNCHANGED <<registryVars, buildVars, walkVars, engineVars, argv, disk, stdin,
                   stderr, fileno, log>>

\* The version action of lines 80-85, called by parse_args at line 102: the
\* version is printed and the process ends with status 0.
ShowVersion ==
    /\ pc = "main"
    /\ parse_args(FIXERS, argv) = "version"
    /\ stdout' = Append(stdout, Printed("version", "", <<>>))
    /\ mainret' = 0
    /\ pc' = "exit"
    /\ UNCHANGED <<registryVars, buildVars, walkVars, engineVars, argv, disk, stdin,
                   stderr, fileno, log>>

\* Line 102: parse_args rejects the arguments; the process exits with the
\* status 2 of parser.error, a usage message on stderr.
UsageError ==
    /\ pc = "main"
    /\ ParseArgsFails(FIXERS, argv)
    /\ stderr' = Append(stderr, Printed("usage", "", <<>>))
    /\ mainret' = 2
    /\ pc' = "exit"
    /\ UNCHANGED <<registryVars, buildVars, walkVars, engineVars, argv, disk, stdin,
                   stdout, fileno, log>>

\* One iteration of the loop at lines 115-121: fix_file on the next filename.
\* When a callback raises in the walk, or the tokenizer raises an exception
\* that apply_fixers does not catch, the exception leaves apply_fixers,
\* fix_file and main, none of which catches it: the run ends there with a
\* traceback, fix_file having returned nothing.  state is the State object
\* of the last call of visit, as its walk left it.
FixFile ==
    /\ pc = "loop"
    /\ fileno < Len(argv.filenames)
    /\ LET filename == argv.filenames[fileno + 1]
           bytes    == IF filename = "-" THEN stdin ELSE disk[filename]
       IN  \E r \in {FixFileRun(heap, FIXERS, filename, bytes, settings,
                                argv.exit_zero_even_if_changed)} :
           /\ stdin' = IF filename = "-" THEN Utf8(<<>>) ELSE stdin
           /\ state' = IF r.stage \in {"UnicodeDecodeError", "SyntaxError"} THEN state
                        ELSE [settings |-> settings, filename |-> filename,
                              from_imports |-> r.imports]
           /\ IF r.stage \in Exceptions
              THEN /\ stderr' = Append(stderr, Printed("Traceback", "", <<>>))
                   /\ pc' = r.stage
                   /\ UNCHANGED <<disk, stdout, calls, mainret, log, fileno>>
              ELSE /\ disk' = IF r.write THEN [disk EXCEPT ![filename] = Utf8(r.text)]
                              ELSE disk
                   /\ stdout' = stdout \o r.stdout
                   /\ stderr' = stderr \o r.stderr
                   /\ calls' = calls \o r.calls
                   /\ mainret' = OrStatus(mainret, r.ret)
                   /\ log' = Append(log, [filename |-> filename, bytes |-> bytes,
                                          ret |-> r.ret, stage |-> r.stage,
                                          text |-> r.text, write |-> r.write,
                                          calls |-> r.calls, imports |-> r.imports])
                   /\ fileno' = fileno + 1
                   /\ pc' = pc
    /\ UNCHANGED <<registryVars, buildVars, tree, table, nodes, ret, visited, queued,
                   original, tokens, callbacks, idx, argv>>

\* Line 123: return ret.
MainReturn ==
    /\ pc = "loop"
    /\ fileno = Len(argv.filenames)
    /\ pc' = "done"
    /\ UNCHANGED <<registryVars, buildVars, walkVars, engineVars, mainVars>>

Next == MainSetup \/ UsageError \/ ListFixers \/ ShowVersion \/ FixFile \/ MainReturn

Spec == Init /\ [][Next]_vars

\* Whether the walk of apply_fixers over the text of the k-th file of the
\* run collects an edit.
CollectsEdits(k) ==
    visit(heap, FIXERS, ast_parse(log[k].bytes.text), settings,
          log[k].filename).ret # EmptyDict

\* C2: when the text of a file does not parse, or it parses, the walk
\* collects an edit and the tokenizing of the text then fails, apply_fixers
\* returns exactly the text it was given, no token function is called, and
\* fix_file reports no change: it returns 0 and does not write the file.
\* apply_fixers leaves by the return of the syntax error in the first case
\* and by the return of the tokenize error in the second, and in no other.
C2_FailureFallback ==
    \A k \in DOMAIN log :
        log[k].bytes.utf8 =>
            \E unparsed \in {~Parses(log[k].bytes.text)} :
            \E untokenized \in {/\ ~unparsed
                                 /\ TokenizeFails(log[k].bytes.text)
                                 /\ CollectsEdits(k)} :
                /\ (unparsed \/ untokenized) =>
                      /\ log[k].text = log[k].bytes.text
                      /\ log[k].calls = <<>>
                      /\ log[k].ret = 0
                      /\ ~log[k].write
                /\ log[k].stage = "SyntaxError" <=> unparsed
                /\ log[k].stage = "TokenError" <=> untokenized

\* A finished run without the exit-zero flag, with every fixer enabled for
\* 3.0, over a text that does not parse for its indentation and a text that
\* parses, has an import the psycopg2 fixer queues an edit for, and ends in
\* a continuation the tokenizer rejects.
C2_Witness ==
    /\ pc = "done"
    /\ ~argv.exit_zero_even_if_changed
    /\ argv.target_version = "3.0" /\ ~argv.only.given /\ ~argv.skip.given
    /\ Len(log) = 2
    /\ log[1].stage = "SyntaxError" /\ log[1].filename = "-"
    /\ log[1].bytes = Unparsable
    /\ log[2].stage = "TokenError" /\ log[2].filename = "app/admin.py"
    /\ Parses(log[2].bytes.text)
    /\ Last(log[2].bytes.text) = CrLfContinuation
    /\ CollectsEdits(2)
    /\ log[2].text = log[2].bytes.text
    /\ mainret = 0
    /\ stderr = <<>>
    /\ disk["app/admin.py"] = log[2].bytes

\* C9: when the text of a file parses and the walk over its tree queues no
\* pair, apply_fixers returns the text unchanged, no token function is
\* called and the file is reported as not changed.  (Stated by its
\* contrapositive: a file that was changed, or reported as changed, or on
\* which a token function was called, is one whose walk queued a pair.)
C9_NoOpWhenNothingQueued ==
    \A k \in DOMAIN log :
        ~( /\ log[k].text = log[k].bytes.text
           /\ log[k].calls = <<>>
           /\ log[k].ret = 0
           /\ ~log[k].write )
        => ~( /\ log[k].bytes.utf8
              /\ Parses(log[k].bytes.text)
              /\ visit(heap, FIXERS, ast_parse(log[k].bytes.text), settings,
                       log[k].filename).queued = <<>> )

\* A run in which an active fixer rewrote the first file and matched
\* nothing in the second, which is reported unchanged.
C9_Witness ==
    /\ pc = "done"
    /\ ~argv.exit_zero_even_if_changed
    /\ Len(log) = 2
    /\ log[1].write /\ log[1].ret = 1
    /\ log[2].stage = "no callbacks"
    /\ log[2].bytes.utf8 /\ log[2].bytes.text # <<>>
    /\ log[2].ret = 0 /\ ~log[2].write
    /\ "psycopg2_to_psycopg3" \in settings.enabled_fixers

\* The text of the k-th file processed differs from its original.
ContentChanged(k) == log[k].bytes.utf8 /\ log[k].text # log[k].bytes.text

\* C10 as stated: main returns 0 if no file's content changed or the
\* exit-zero flag is set, and 1 if some file's content differs from its
\* original; the status is the OR of the per-file results and every listed
\* file is processed.
C10_ExitStatus ==
    pc = "done" =>
        /\ ( \/ \A k \in DOMAIN log : ~ContentChanged(k)
             \/ argv.exit_zero_even_if_changed ) => mainret = 0
        /\ ( /\ \E k \in DOMAIN log : ContentChanged(k)
             /\ ~argv.exit_zero_even_if_changed ) => mainret = 1
        /\ mainret = 1 <=> \E k \in DOMAIN log : log[k].ret = 1
        /\ Len(log) = Len(argv.filenames)

\* C10 amended: main returns 1 if some file's bytes are not valid UTF-8,
\* whatever the exit-zero flag, or if the flag is not set and some file's
\* content differs from its original, and 0 otherwise; the status is the OR
\* of the per-file results and every listed file is processed in order.
C10_ExitStatusWithDecodeErrors ==
    pc = "done" =>
        /\ mainret \in {0, 1}
        /\ mainret = 1 <=>
              \/ \E k \in DOMAIN log : ~log[k].bytes.utf8
              \/ /\ ~argv.exit_zero_even_if_changed
                 /\ \E k \in DOMAIN log : ContentChanged(k)
        /\ mainret = 1 <=> \E k \in DOMAIN log : log[k].ret = 1
        /\ Len(log) = Len(argv.filenames)
        /\ \A k \in DOMAIN log : log[k].filename = argv.filenames[k]

\* A run with the exit-zero flag whose first file does not decode and whose
\* second file is rewritten after it: the status is 1.
C10_Witness ==
    /\ pc = "done"
    /\ argv.exit_zero_even_if_changed
    /\ Len(log) = 2
    /\ ~log[1].bytes.utf8 /\ log[1].ret = 1
    /\ log[2].write /\ log[2].ret = 0
    /\ mainret = 1

\* The lines fix_file has printed about files whose bytes do not decode.
DecodeDiagnostics ==
    LET IsDiagnostic(x) == x.kind = "non-utf-8"
    IN  SelectSeq(stdout, IsDiagnostic)

\* The files processed so far whose bytes do not decode.
UndecodableFiles ==
    LET Undecodable(e) == ~e.bytes.utf8
    IN  SelectSeq(log, Undecodable)

\* C11: for a file whose bytes are not valid UTF-8 fix_file prints one
\* diagnostic naming the file, neither parses nor rewrites nor writes it, and
\* returns 1, with or without the exit-zero flag; the run goes on to the
\* remaining files and ends with status 1.
C11_DecodeError ==
    /\ \A k \in DOMAIN log :
          ~log[k].bytes.utf8 =>
              /\ log[k].stage = "UnicodeDecodeError"
              /\ log[k].calls = <<>>
              /\ ~log[k].write
              /\ log[k].ret = 1
              /\ mainret = 1
              /\ log[k].filename # "-" => disk[log[k].filename] = log[k].bytes
    /\ Len(DecodeDiagnostics) = Len(UndecodableFiles)
    /\ \A j \in DOMAIN DecodeDiagnostics :
          DecodeDiagnostics[j].filename = UndecodableFiles[j].filename
    /\ (pc = "done" /\ argv.target_version \in TargetChoices) =>
          Len(log) = Len(argv.filenames)

\* A run with the exit-zero flag whose first file does not decode: the file
\* after it is still processed and rewritten, and the status is 1.
C11_Witness ==
    /\ pc = "done"
    /\ argv.exit_zero_even_if_changed
    /\ argv.filenames = <<"app/views.py", "app/admin.py">>
    /\ disk["app/views.py"] = NotUtf8
    /\ log[1].ret = 1
    /\ log[2].stage = "edited" /\ log[2].write
    /\ Len(DecodeDiagnostics) = 1
    /\ mainret = 1

\* C12: a call of fix_file on a path other than "-" writes the file exactly
\* when the text apply_fixers returned differs from the text read, writes
\* the returned text, and leaves every other file as it was; a call on "-"
\* writes no file and prints the text, changed or not.
C12_WriteOnlyIfChanged ==
    [][fileno' = fileno + 1 =>
        LET e == log'[fileno']
        IN  /\ e.filename = argv.filenames[fileno']
            /\ e.write <=> /\ e.filename # "-"
                           /\ e.bytes.utf8
                           /\ e.text # e.bytes.text
            /\ disk' = IF e.write THEN [disk EXCEPT ![e.filename] = Utf8(e.text)]
                       ELSE disk
            /\ e.write => disk'[e.filename] # disk[e.filename]
            /\ (e.filename = "-" /\ e.bytes.utf8) =>
                  stdout' = Append(stdout, Printed("text", "", e.text))
            /\ (e.filename # "-" /\ e.bytes.utf8) => stdout' = stdout]_vars

\* A run that rewrote the first file, left the second file alone and then
\* printed the rewritten text of the input stream.
C12_Witness ==
    /\ MaxFiles >= 2
    /\ Len(log) >= 2
    /\ log[1].filename = "app/views.py" /\ log[1].write
    /\ disk["app/views.py"] = Utf8(log[1].text)
    /\ log[2].filename = "-" /\ log[2].text # log[2].bytes.text
    /\ ~log[2].write
    /\ disk["app/admin.py"].utf8
    /\ stdout = <<Printed("text", "", log[2].text)>>

\* The arguments name a target version that is no choice, or a fixer that
\* is not in the catalogue.
ConfigurationError ==
    \/ argv.target_version \notin TargetChoices
    \/ \E n \in argv.only.names \cup argv.skip.names :
          \A k \in DOMAIN FIXERS : FIXERS[k].name # n

\* The k-th option of the command line carries a value that is no choice
\* or names no fixer.
Offending(k) ==
    \/ argv.order[k] = "--target-version" /\ argv.target_version \notin TargetChoices
    \/ /\ argv.order[k] = "--only"
       /\ \E n \in argv.only.names : \A j \in DOMAIN FIXERS : FIXERS[j].name # n
    \/ /\ argv.order[k] = "--skip"
       /\ \E n \in argv.skip.names : \A j \in DOMAIN FIXERS : FIXERS[j].name # n

\* A --list-fixers or --version option stands on the command line before
\* every option whose value is in error.
ExitOptionFirst ==
    \E k \in DOMAIN argv.order :
        /\ argv.order[k] \in {"--list-fixers", "--version"}
        /\ \A j \in 1 .. k - 1 : ~Offending(j)

RaisingFixerActive ==
    \E k \in DOMAIN FIXERS :
        /\ "raise_error" \in Range(heap[FIXERS[k].ref].ast_funcs["FunctionDef"])
        /\ FIXERS[k].name \in settings.enabled_fixers
        /\ VersionNumber(heap[FIXERS[k].ref].min_version)
             <= VersionNumber(settings.target_version)

\* The bytes fix_file reads for the next filename of the run.
NextBytes ==
    IF argv.filenames[fileno + 1] = "-" THEN stdin ELSE disk[argv.filenames[fileno + 1]]

\* The bytes are a text that parses and holds a function definition.
HasFunctionDef(bytes) ==
    /\ bytes.utf8
    /\ Parses(bytes.text)
    /\ \E id \in DOMAIN ast_parse(bytes.text) : ast_parse(bytes.text)[id].kind = "FunctionDef"

\* C17: when a callback raises while a file of the run is walked, the run
\* is aborted in that step: the file is not written, nothing is printed to
\* stdout, no status is recorded, and no step follows, so no later file is
\* read, rewritten or written; the files rewritten before stay as they were
\* rewritten.  A run ends by the exception of a callback only so.
C17_UnguardedCallbacks ==
    /\ [][ ( /\ pc = "loop" /\ fileno < Len(argv.filenames)
             /\ RaisingFixerActive /\ HasFunctionDef(NextBytes) )
           => ( /\ pc' = "raised"
                /\ disk' = disk /\ stdout' = stdout /\ log' = log
                /\ fileno' = fileno /\ mainret' = mainret ) ]_vars
    /\ [][pc # "raised"]_vars
    /\ [][pc' = "raised" => (RaisingFixerActive /\ HasFunctionDef(NextBytes))]_vars
    /\ [](pc = "raised" =>
            /\ fileno < Len(argv.filenames) /\ Len(log) = fileno
            /\ \A k \in DOMAIN log :
                  ( /\ log[k].write
                    /\ \A j \in DOMAIN log :
                          (j > k /\ log[j].filename = log[k].filename) => ~log[j].write )
                  => disk[log[k].filename] = Utf8(log[k].text))

\* A run over app/views.py, which the psycopg2 fixer rewrote, and then
\* app/admin.py, on whose function definition a callback raised: the run
\* was aborted, the first file is rewritten on disk and the second is as it
\* was.
C17_Witness ==
    /\ pc = "raised"
    /\ argv.filenames = <<"app/views.py", "app/admin.py">>
    /\ Len(log) = 1 /\ log[1].write /\ log[1].ret = 1
    /\ disk["app/views.py"] = Utf8(<<"import", " ", "psycopg", "\n">>)
    /\ HasFunctionDef(disk["app/admin.py"])
    /\ fileno = 1
    /\ stdout = <<>>

(***************************************************************************)
(* Repeated runs of apply_fixers over one file: each run reads the text    *)
(* the run before it left.                                                 *)
(***************************************************************************)

MaxApplications == 2
MaxApplyLines == 2

ApplyVocabulary ==
    {Import(<< Alias(<<"psycopg2">>, "") >>),
     Import(<< Alias(<<"psycopg2", "extras">>, ""), Alias(<<"psycopg2">>, "") >>),
     ImportFrom(<<"psycopg2">>, << Alias(<<"x">>, "") >>, 0),
     ImportFrom(<<"django", "utils", "html">>, << Alias(<<"format_html">>, "") >>, 0),
     FormatHtml, FormatHtmlArgs, Def("f")}

ApplyTexts == Programs(ApplyVocabulary, MaxApplyLines)

\* The target version and the --only list of the runs: the last version
\* before the format_html fixer works and the first it works for, with
\* every fixer or with one fixer in isolation.
ApplyConfigs ==
    {<<"4.2", None_>>, <<"4.2", Some({"psycopg2_to_psycopg3"})>>,
     <<"5.0", None_>>, <<"5.0", Some({"format_html"})>>}

\* The file written, apply_fixers about to run over it for the first time.
InitApply ==
    /\ heap = LoadedHeap /\ FIXERS = LoadedFIXERS
    /\ \E cfg \in ApplyConfigs :
         /\ argv = [NoArgv EXCEPT !.filenames = <<"app/views.py">>,
                                  !.target_version = cfg[1], !.only = cfg[2]]
         /\ settings = NewSettings(FIXERS, ParseTargetVersion(cfg[1]), cfg[2], None_)
    /\ \E text \in ApplyTexts :
         disk = [p \in Paths |-> IF p = "app/views.py" THEN Utf8(text) ELSE Utf8(<<>>)]
    /\ stdin = <<>> /\ stdout = <<>> /\ stderr = <<>>
    /\ mainret = 0 /\ fileno = 0 /\ log = <<>>
    /\ ast_funcs = NoFuncs /\ buildfile = ""
    /\ pc = "apply"
    /\ IdleWalk /\ IdleEngine

\* apply_fixers(contents_text, settings, filename) on the text of the file;
\* the text it returns becomes the text of the file.
Apply ==
    /\ pc = "apply"
    /\ Len(log) < MaxApplications
    /\ \E r \in {ApplyFixersRun(heap, FIXERS, disk["app/views.py"].text, settings,
                                "app/views.py")} :
         IF r.stage \in Exceptions
         THEN /\ pc' = r.stage
              /\ UNCHANGED <<disk, log>>
         ELSE /\ disk' = [disk EXCEPT !["app/views.py"] = Utf8(r.text)]
              /\ log' = Append(log, [input |-> disk["app/views.py"].text,
                                     text |-> r.text,
                                     calls |-> r.calls, stage |-> r.stage])
              /\ pc' = pc
    /\ UNCHANGED <<registryVars, buildVars, walkVars, engineVars, argv, stdin, stdout,
                   stderr, mainret, fileno>>

NextApply == Apply

SpecApply == InitApply /\ [][NextApply]_vars

\* The psycopg2 fixer alone is enabled and works for the target version.
Psycopg2RuleAlone ==
    /\ settings.enabled_fixers = {"psycopg2_to_psycopg3"}
    /\ VersionNumber(settings.target_version) >= 300

\* C18: single-pass convergence of the psycopg2 rule run in isolation: a
\* second run of apply_fixers, over the text the first run returned, calls
\* no token function and returns that text unchanged.
C18_SinglePassConvergence ==
    (Psycopg2RuleAlone /\ Len(log) >= 2)
        => (log[2].calls = <<>> /\ log[2].text = log[1].text)

\* The format_html fixer survives the selection of the runs.
FormatHtmlActive ==
    /\ "format_html" \in settings.enabled_fixers
    /\ VersionNumber(settings.target_version) >= 500

\* Whether line j of the lines is a format_html(S.format(A)) statement with
\* an import of format_html from django.utils.html on a line before it.
RewritableCall(lines, j) ==
    /\ lines[j].stmt = FormatHtml
    /\ \E i \in 1 .. j - 1 :
          lines[i].stmt = ImportFrom(<<"django", "utils", "html">>,
                                     << Alias(<<"format_html">>, "") >>, 0)

\* C19: the format_html rewrite.  When the fixer is enabled at a target of
\* (5, 0) or more, a statement html = format_html(S.format(A)) that follows
\* the import of format_html from django.utils.html becomes
\* html = format_html(S, A): the tokens '.', 'format', '(' and the closing
\* parenthesis of the format call are gone and ', ' stands where '.format('
\* began; the edit is called once, at the token format_html; no other line
\* changes when no other fixer is enabled, and no such statement changes
\* without the import before it or when the fixer is not active.
C19_FormatHtmlRewrite ==
    \A k \in DOMAIN log :
        LET ins  == LinesOf(log[k].input)
            outs == LinesOf(log[k].text)
        IN  /\ Len(outs) = Len(ins)
            /\ \A j \in DOMAIN ins :
                  /\ outs[j].indent = ins[j].indent
                  /\ (FormatHtmlActive /\ RewritableCall(ins, j))
                        => outs[j].lexs = Lexemes(FormatHtmlArgs)
                  /\ (ins[j].stmt \in {FormatHtml, FormatHtmlArgs}
                        /\ ~(FormatHtmlActive /\ RewritableCall(ins, j)))
                        => outs[j].lexs = ins[j].lexs
                  /\ settings.enabled_fixers = {"format_html"}
                        => (outs[j].lexs # ins[j].lexs => RewritableCall(ins, j))
            /\ \A c \in DOMAIN log[k].calls :
                  log[k].calls[c].fn.fn = "rewrite_str_format"
                      => /\ log[k].calls[c].at.src = "format_html"
                         /\ RewritableCall(ins, log[k].calls[c].at.line)
            /\ FormatHtmlActive =>
                  Cardinality({c \in DOMAIN log[k].calls :
                                  log[k].calls[c].fn.fn = "rewrite_str_format"})
                    = Cardinality({j \in DOMAIN ins : RewritableCall(ins, j)})

\* The scenario of the fixer's documentation at target 5.0, every fixer
\* enabled: the call is rewritten by the first run, and the second run
\* finds nothing to do.
C19_Witness ==
    /\ Len(log) = 2
    /\ settings.target_version = <<5, 0>>
    /\ ~argv.only.given
    /\ log[1].input = <<"from", " ", "django", ".", "utils", ".", "html", " ", "import",
                        " ", "format_html", "\n",
                        "html", " ", "=", " ", "format_html", "(", "\"Hello, {}!\"",
                        ".", "format", "(", "name", ")", ")", "\n">>
    /\ log[1].text = <<"from", " ", "django", ".", "utils", ".", "html", " ", "import",
                       " ", "format_html", "\n",
                       "html", " ", "=", " ", "format_html", "(", "\"Hello, {}!\"",
                       ",", " ", "name", ")", "\n">>
    /\ Len(log[1].calls) = 1
    /\ log[2].stage = "no callbacks"

\* An import-from of admin from django.contrib that records the name was
\* processed before the j-th node of the walk.
AdminRecordedBefore(j) ==
    \E i \in 1 .. j - 1 : ImportsPlainly(visited[i], <<"django", "contrib">>, <<"admin">>)

\* The node is an assignment of True to an attribute allow_tags.
AssignsAllowTags(id) ==
    /\ tree[id].kind = "Assign"
    /\ tree[Attr(tree[id], "targets").items[1]].kind = "Attribute"
    /\ Attr(tree[Attr(tree[id], "targets").items[1]], "attr").val = <<"allow_tags">>
    /\ tree[Attr(tree[id], "value").node].kind = "Constant"
    /\ Attr(tree[Attr(tree[id], "value").node], "value").val = <<"True">>

\* The names the aliases of the tree import.
AliasNames ==
    {Attr(tree[id], "name").val : id \in {i \in DOMAIN tree : tree[i].kind = "alias"}}

\* C20: import facts are visible only to nodes visited later.  At every
\* moment of the walk from_imports holds exactly the names the import-from
\* nodes processed so far record; the callbacks of a node saw the names
\* recorded by the nodes processed strictly before it: an allow_tags
\* assignment has its erase edit queued if and only if a recording import
\* of admin was processed before it, and a callback that reads the fact on
\* an import-from node yields if and only if an earlier node recorded it,
\* not the node itself.
C20_ImportFactsLaterOnly ==
    /\ \A m \in DOMAIN state.from_imports :
          \A n \in AliasNames \cup state.from_imports[m] :
              n \in state.from_imports[m]
                  <=> (TrackedModule(m) /\ \E id \in Range(visited) : ImportsPlainly(id, m, n))
    /\ \A j \in DOMAIN visited :
          LET id == visited[j]
          IN  /\ tree[id].kind = "Assign" =>
                    ( (\E q \in Range(queued) :
                          q[2].fn = "erase_node" /\ q[2].node = id)
                      <=> (AssignsAllowTags(id) /\ AdminRecordedBefore(j)) )
              /\ (tree[id].kind = "ImportFrom" /\ HasKey(FIXERS, "extra")) =>
                    ( (\E q \in Range(queued) :
                          /\ q[1] = <<tree[id].lineno, tree[id].col_offset>>
                          /\ q[2].fn = "marker" /\ q[2].name = "probe_admin")
                      <=> AdminRecordedBefore(j) )

\* A finished walk over an allow_tags assignment, the import of admin and a
\* second allow_tags assignment, with the plugin's callback on import-from
\* nodes: the second assignment alone has an erase edit, and the callback
\* on the import itself yielded nothing.
C20_Witness ==
    /\ pc = "visited"
    /\ HasKey(FIXERS, "extra")
    /\ LET body == Attr(tree[RootId], "body").items
       IN  /\ Len(body) = 3
           /\ AssignsAllowTags(body[1])
           /\ ImportsPlainly(body[2], <<"django", "contrib">>, <<"admin">>)
           /\ AssignsAllowTags(body[3])
           /\ \E q \in Range(queued) : q[2].fn = "erase_node" /\ q[2].node = body[3]
           /\ \A q \in Range(queued) : q[2].node # body[1]
    /\ \A q \in Range(queued) : q[2].name # "probe_admin"
    /\ <<"admin">> \in state.from_imports[<<"django", "contrib">>]

(***************************************************************************)
(* Several files in one run: main's loop over files whose rewriting        *)
(* depends on the names a file imports.                                    *)
(***************************************************************************)

\* The text of the import of admin and an allow_tags assignment after it,
\* the last line without its newline.
AdminText ==
    LET t == TextOf(<<[indent |-> 0,
                       stmt |-> ImportFrom(<<"django", "contrib">>,
                                           << Alias(<<"admin">>, "") >>, 0)],
                      [indent |-> 0, stmt |-> AssignAttr("f", "allow_tags", "True")]>>)
    IN  SubSeq(t, 1, Len(t) - 1)

\* The contents of the files: a call of format_html without its import,
\* the import with the call, and the admin text.
FileTexts ==
    LET imp == ImportFrom(<<"django", "utils", "html">>,
                          << Alias(<<"format_html">>, "") >>, 0)
    IN  {Utf8(TextOf(<<[indent |-> 0, stmt |-> FormatHtml]>>)),
         Utf8(TextOf(<<[indent |-> 0, stmt |-> imp], [indent |-> 0, stmt |-> FormatHtml]>>)),
         Utf8(AdminText)}

\* The configurations: all fixers at 5.0, a version that is no choice, and
\* the two options that end the run in the parsing of the arguments.
FileConfigs ==
    {MainConfig("5.0", None_, None_, <<"--target-version">>, <<>>),
     MainConfig("9.9", None_, None_, <<"--target-version">>, <<>>),
     MainConfig("5.0", None_, None_, <<"--target-version", "--list-fixers">>, <<>>),
     MainConfig("5.0", None_, None_, <<"--target-version", "--version">>, <<>>)}

\* main(argv) is entered with such files on disk, and the call without the
\* import on the input stream.
InitFiles ==
    /\ heap = LoadedHeap /\ FIXERS = LoadedFIXERS
    /\ \E names \in SeqsUpTo(Filenames, MaxFiles) \ {<<>>}, cfg \in FileConfigs :
         argv = [filenames |-> names, target_version |-> cfg.target_version,
                 exit_zero_even_if_changed |-> FALSE,
                 only |-> cfg.only, skip |-> cfg.skip, order |-> cfg.order]
    /\ disk \in [Paths -> FileTexts]
    /\ stdin = Utf8(TextOf(<<[indent |-> 0, stmt |-> FormatHtml]>>))
    /\ stdout = <<>> /\ stderr = <<>>
    /\ mainret = 0 /\ fileno = 0 /\ log = <<>>
    /\ pc = "main"
    /\ IdleBuild /\ IdleWalk /\ IdleEngine

SpecFiles == InitFiles /\ [][Next]_vars

\* The names the import-from statements of the tree tr import from module m
\* under their own name, from the module itself and not as a wildcard.
PlainImports(tr, m) ==
    {Attr(tr[a], "name").val :
        a \in {b \in UNION {Range(Attr(tr[id], "names").items) :
                              id \in {i \in DOMAIN tr :
                                        /\ tr[i].kind = "ImportFrom"
                                        /\ Attr(tr[i], "level").num = 0
                                        /\ Attr(tr[i], "module").tag = "value"
                                        /\ Attr(tr[i], "module").val = m}} :
                 /\ Attr(tr[b], "asname").tag = "none"
                 /\ Attr(tr[b], "name").val # <<"*">>}}

\* The imported-name map a walk of the tree tr ends with when it starts with
\* an empty one.
OwnImports(tr) ==
    [m \in ModuleNames |-> IF TrackedModule(m) THEN PlainImports(tr, m) ELSE {}]

\* What apply_fixers gives for the text of the k-th file processed when it
\* is called on it in a process of its own with the settings of the run.
ProcessedAlone(k) ==
    ApplyFixersRun(LoadedHeap, LoadedFIXERS, log[k].bytes.text,
                   NewSettings(LoadedFIXERS, ParseTargetVersion(argv.target_version),
                               argv.only, argv.skip),
                   log[k].filename)

\* The k-th file processed was walked: it decoded and parsed.
Walked(k) == log[k].stage \notin {"UnicodeDecodeError", "SyntaxError"}

\* C24: whatever files were processed before it in the run, the text
\* fix_file gets for a file is the text apply_fixers gives for the bytes
\* read when called on them alone with the same settings; the imported-name
\* map of its walk holds the names its own import-from statements import
\* and no name of a file before it; and a call of fix_file changes neither
\* the settings nor the registry with its fixers' callback lists.
C24_PerFileIsolation ==
    /\ [](\A k \in DOMAIN log :
            /\ \E alone \in {ProcessedAlone(k)} :
                  log[k].text = alone.text /\ log[k].calls = alone.calls
            /\ Walked(k) => log[k].imports = OwnImports(ast_parse(log[k].bytes.text)))
    /\ [][pc = "loop" => (settings' = settings /\ heap' = heap /\ FIXERS' = FIXERS)]_vars

\* Two files were processed: the first imports format_html, the second
\* calls it on a str.format() result without importing it.  The second was
\* walked with no imported name and was left as it was, while the same call
\* after the import in one file would have been rewritten.
C24_Witness ==
    /\ pc = "done"
    /\ Len(log) = 2
    /\ log[1].filename # log[2].filename
    /\ log[1].imports[<<"django", "utils", "html">>] = {<<"format_html">>}
    /\ log[2].bytes = Utf8(TextOf(<<[indent |-> 0, stmt |-> FormatHtml]>>))
    /\ log[2].imports = NoImports
    /\ log[2].stage = "no callbacks" /\ log[2].text = log[2].bytes.text
    /\ settings.enabled_fixers = DictKeys(LoadedFIXERS)

=============================================================================
